---- MODULE Spec2Model ----
(***************************************************************************)
(* Model of the per-account Connection of dispzap:                         *)
(* Backend/src/modules/whatsapp/whatsappClient.js (class WhatsAppClient),  *)
(* together with the provider it wraps (providers/baileysProvider.js).     *)
(*                                                                         *)
(* Time is the value of Date.now() in milliseconds, counted from the       *)
(* construction of the client (now = 1 at construction).  The clock moves  *)
(* only in the action Advance, and only to an instant at which something   *)
(* can change: a timer's deadline, cooldownUntil, or the instant a send    *)
(* leaves the hourly or the daily window.  Handlers run to their next      *)
(* await in one step, as on the single-threaded event loop.                *)
(***************************************************************************)
EXTENDS Integers, Sequences, FiniteSets, Bags, TLC

(***************************************************************************)
(* Bounds of the model.                                                    *)
(***************************************************************************)
\* options.complianceConfig.maxMessagesPerHour / maxMessagesPerDay of the
\* client under test (tests/test-rate-limit.js uses 1 and 2).
maxMessagesPerHour == 1
maxMessagesPerDay == 2
\* options.maxReconnects of the client under test.
maxReconnects == 1
\* Operations from outside in one run: calls of initialize, sendMessage and
\* enterCooldown, provider events, and moves of the clock.  The provider's
\* answers and the timers of the client are not counted.
MaxOps == 6
\* Durations passed to enterCooldown (besides 0).
ShortCooldown == 10
LongCooldown == 20000
\* Direct calls of _transition in the specification SpecT.
MaxTransitionCalls == 5
\* SpecE: delays passed to setDelayRange besides 0, 1 and the defaults; the
\* denominator of the normalized sample num (num = n / NumScale); and the
\* depth of the recursion of getVariableDelay.
SmallDelay == 1000
MediumDelay == 5000
NumScale == 10
MaxResamples == 2
\* SpecE: products above this value are recorded as this value.
MaxValue == 2000000000
\* SpecD: dispatch() calls in one run, and the length of a long message.
MaxDispatches == 2
LongMessage == 200
\* SpecR: the longest sendHistory a rate-limit check is given.
MaxHistory == 3
\* SpecP: account ids, calls made on the pool and transitions of its clients
\* in one run, and the largest minReady of a waitForReady call.
MaxIds == 2
MaxPoolCalls == 4
MaxMinReady == 2
MaxWaits == 3
MaxMessages == 2
MaxReceipts == 2

(***************************************************************************)
(* Program constants.                                                      *)
(***************************************************************************)
HourMs == 3600000
DayMs == 86400000
IdleTimeoutMs == 15000
ReconnectJitterMin == 5000
ReconnectJitterMax == 15000
CooldownJitterMin == 3000
CooldownJitterMax == 12000

DefaultMinDelay == 30000
DefaultMaxDelay == 90000
CharDelayBase == 100
CharDelaySpread == 50
TypingCap == 15000

\* null / cleared value of cooldownUntil and of a timer handle; falsy in JS.
NoTime == 0

STATES == {"INIT", "AUTHENTICATING", "CONNECTED", "READY", "IDLE", "SENDING",
           "COOLDOWN", "DISCONNECTED", "ERROR"}

VARIABLES
  status,             \* this.status
  cooldownUntil,      \* this.cooldownUntil (NoTime = null)
  sendHistory,        \* this.sendHistory, timestamps in push order
  messageTracker,     \* this.messageTracker, as a set of entries
  reconnectAttempts,  \* this.reconnectAttempts
  idleTimer,          \* deadline of the pending idle timer, NoTime if none
  reconnectTimers,    \* bag of deadlines of pending reconnect timers
  cooldownWaits,      \* bag of suspended enterCooldown calls
  calls,              \* bag of sendMessage calls awaiting the provider
  initPending,        \* initialize() calls awaiting provider.initialize()
  disconnectReason,   \* provider.disconnectReason
  socket,             \* provider.socket is set (provider.initialize() resolved once)
  now,                \* Date.now()
  ops,                \* number of operations from outside so far
  last,               \* what the last handler did (history variable)
  recovering,         \* history: a send was rejected by the rate limit or the cooldown,
                      \* and only sends, timers of the client and the clock since
  terminal,           \* history: why ERROR was entered for good, with only close
                      \* events, reconnect timers and the clock since
  scheduledSinceOpen, \* history: reconnect timers scheduled since the last open
  lastT,              \* SpecT: the last direct _transition call
  tcalls,             \* SpecT: number of direct _transition calls
  minDelay,           \* ComplianceEngine.minDelay
  maxDelay,           \* ComplianceEngine.maxDelay
  variableDelay,      \* SpecE: what the last getVariableDelay() call returned
  engineCall,         \* SpecE: the last setDelayRange or getTypingDelay call (history)
  rateCheck,          \* SpecR: the last _enforceRateLimit call (history)
  waitListeners,      \* waitUntilReady calls whose handleStatus listens to 'status'
  waitTimers,         \* waitUntilReady calls whose timeout is pending
  waitOutcome,        \* history: how each waitUntilReady call settled, in order
  stopping,           \* SpecS: the stopSession/shutdown call, where it is
  campaign,           \* SpecC: the campaign state and the message in dispatch
  dispatch,           \* SpecD: the dispatch() call in progress or just ended
  clients,            \* SpecP: the WhatsAppClients created, by displayOrder
  sessions,           \* SessionManager.sessions: id -> displayOrder of its client
  startingSessions,   \* SessionManager.startingSessions, its keys
  isLoaded,           \* SessionManager.isLoaded
  loads,              \* loadSessions() calls suspended at `await this.startSession(id)`
  waiters,            \* waitForReady() calls that have not settled
  pcalls,             \* SpecP: number of calls and client transitions so far
  lastP               \* SpecP: what the last step of the pool did (history)

vars == <<status, cooldownUntil, sendHistory, messageTracker, reconnectAttempts, idleTimer,
          reconnectTimers, cooldownWaits, calls, initPending, disconnectReason,
          socket, now, ops, last, recovering, terminal, scheduledSinceOpen,
          lastT, tcalls, minDelay, maxDelay, variableDelay, engineCall,
          rateCheck, waitListeners, waitTimers, waitOutcome, stopping,
          campaign, dispatch,
          clients, sessions, startingSessions, isLoaded, loads, waiters,
          pcalls, lastP>>

(***************************************************************************)
(* Pure helpers.                                                           *)
(***************************************************************************)
Max(a, b) == IF a >= b THEN a ELSE b

\* Array.prototype.filter with the predicate ts >= t.
RECURSIVE FilterSince(_, _)
FilterSince(h, t) ==
  IF h = <<>> THEN <<>>
  ELSE IF Head(h) >= t THEN <<Head(h)>> \o FilterSince(Tail(h), t)
       ELSE FilterSince(Tail(h), t)

\* Math.floor(min + Math.random() * (max - min)) lies in min .. max - 1; the
\* model draws the two ends of that range.
RandomDelay(min, max) == {min, max - 1}

\* Mutant of allowed: the row of COOLDOWN lacks IDLE.
allowedWithoutCooldownIdle ==
  [s \in STATES |->
     CASE s = "INIT" -> {"AUTHENTICATING", "ERROR"}
       [] s = "AUTHENTICATING" -> {"CONNECTED", "ERROR", "DISCONNECTED"}
       [] s = "CONNECTED" -> {"READY", "ERROR", "DISCONNECTED"}
       [] s = "READY" -> {"SENDING", "IDLE", "COOLDOWN", "ERROR", "DISCONNECTED"}
       [] s = "IDLE" -> {"READY", "SENDING", "COOLDOWN", "ERROR", "DISCONNECTED"}
       [] s = "SENDING" -> {"COOLDOWN", "READY", "ERROR", "DISCONNECTED"}
       [] s = "COOLDOWN" -> {"READY", "ERROR", "DISCONNECTED"}
       [] s = "DISCONNECTED" -> {"AUTHENTICATING", "ERROR"}
       [] s = "ERROR" -> {"AUTHENTICATING", "DISCONNECTED"}]

\* The table `allowed` of _transition.
allowed ==
  [s \in STATES |->
     CASE s = "INIT" -> {"AUTHENTICATING", "ERROR"}
       [] s = "AUTHENTICATING" -> {"CONNECTED", "ERROR", "DISCONNECTED"}
       [] s = "CONNECTED" -> {"READY", "ERROR", "DISCONNECTED"}
       [] s = "READY" -> {"SENDING", "IDLE", "COOLDOWN", "ERROR", "DISCONNECTED"}
       [] s = "IDLE" -> {"READY", "SENDING", "COOLDOWN", "ERROR", "DISCONNECTED"}
       [] s = "SENDING" -> {"COOLDOWN", "READY", "ERROR", "DISCONNECTED"}
       [] s = "COOLDOWN" -> {"READY", "IDLE", "ERROR", "DISCONNECTED"}
       [] s = "DISCONNECTED" -> {"AUTHENTICATING", "ERROR"}
       [] s = "ERROR" -> {"AUTHENTICATING", "DISCONNECTED"}]

\* allowed[this.status]?.includes(nextState)
IsAllowed(s, nextState) == nextState \in allowed[s]

\* Mutant of Transition: a transition outside the table is ignored.
TransitionIgnoringInvalid(s, nextState) ==
  IF IsAllowed(s, nextState) THEN nextState ELSE s

\* _transition(nextState): the status it leaves, from status s.
Transition(s, nextState) ==
  IF s = nextState THEN s
  ELSE IF ~IsAllowed(s, nextState) THEN "ERROR"
  ELSE nextState

\* Mutant of Emitted: a transition outside the table is not announced.
EmittedIfAllowed(s, nextState) ==
  IF s = nextState \/ ~IsAllowed(s, nextState) THEN <<>> ELSE <<nextState>>

\* lines 133, 141: the reason the status event of _transition(nextState,
\* reason) carries; "none" when no event is emitted.
EmittedReason(s, nextState, reason) ==
  IF s = nextState THEN "none"
  ELSE IF ~IsAllowed(s, nextState) THEN "invalid_transition"
  ELSE reason

\* lines 115, 133, 141: the status events _transition(nextState) emits from
\* status s; none when the status is nextState already.
Emitted(s, nextState) ==
  IF s = nextState THEN <<>> ELSE <<Transition(s, nextState)>>

\* The status events of consecutive _transition calls, each made from the
\* status the call before it left.
RECURSIVE StatusEvents(_, _)
StatusEvents(s, requests) ==
  IF requests = <<>> THEN <<>>
  ELSE Emitted(s, Head(requests))
         \o StatusEvents(Transition(s, Head(requests)), Tail(requests))

\* Mutant of Prepare: an IDLE Connection is not promoted.
PrepareNothing(s) == s

\* sendMessage, lines 194-196: an IDLE Connection is promoted to READY.
Prepare(s) == IF s = "IDLE" THEN Transition(s, "READY") ELSE s

\* Mutant of CanSend: a send also proceeds from COOLDOWN.
CanSendFromCooldown(s) == s \in {"READY", "COOLDOWN"}

\* sendMessage, line 198: the status check that lets a send proceed.
CanSend(s) == s = "READY"

\* Mutant of CooldownBlocks: the comparison is reversed.
CooldownBlocksReversed(cu, t) == t > cu

\* _enforceCooldown, line 260: the cooldown still blocks at time t.
CooldownBlocks(cu, t) == t < cu

\* _enforceCooldown on status s and cooldownUntil cu at time t.
EnforceCooldown(s, cu, t) ==
  IF cu = NoTime THEN [threw |-> FALSE, status |-> s, cooldownUntil |-> cu]
  ELSE IF CooldownBlocks(cu, t)
    THEN [threw |-> TRUE, status |-> Transition(s, "COOLDOWN"), cooldownUntil |-> cu]
    ELSE [threw |-> FALSE,
          status |-> IF s = "COOLDOWN" THEN Transition(s, "READY") ELSE s,
          cooldownUntil |-> NoTime]

\* Mutant of DailySends: nothing is dropped from the history.
DailySendsUnpruned(h, t) == h

\* Entries of h inside the trailing hour / the trailing 24 hours of time t.
HourlySends(h, t) == FilterSince(h, t - HourMs)
DailySends(h, t) == FilterSince(h, t - DayMs)

\* Mutant of HourLimitReached: one send too many passes.
HourLimitExceeded(count) == count > maxMessagesPerHour

\* _enforceRateLimit, line 281 / line 288: the limit is reached.
HourLimitReached(count) == count >= maxMessagesPerHour
DayLimitReached(count) == count >= maxMessagesPerDay

\* Mutant of SetCooldownUntil: no jitter is added.
SetCooldownUntilNoJitter(timestamp, jitter) == timestamp

\* _setCooldownUntil(timestamp): the new cooldownUntil, with the jitter drawn.
SetCooldownUntil(timestamp, jitter) == timestamp + jitter

\* _enforceRateLimit on status s, cooldownUntil cu and history h at time t.
EnforceRateLimit(s, cu, h, t, jitter) ==
  LET pruned == DailySends(h, t)
      hourly == HourlySends(pruned, t)
  IN IF HourLimitReached(Len(hourly))
       THEN [threw |-> "rate_limit_hour", status |-> Transition(s, "COOLDOWN"),
             cooldownUntil |-> SetCooldownUntil(hourly[1] + HourMs, jitter),
             sendHistory |-> pruned]
     ELSE IF DayLimitReached(Len(pruned))
       THEN [threw |-> "rate_limit_day", status |-> Transition(s, "COOLDOWN"),
             cooldownUntil |-> SetCooldownUntil(pruned[1] + DayMs, jitter),
             sendHistory |-> pruned]
     ELSE [threw |-> "none", status |-> s, cooldownUntil |-> cu,
           sendHistory |-> pruned]

\* Mutant of ReconnectExceeded: one retry too many is scheduled.
ReconnectExceededLate(attempts) == attempts > maxReconnects + 1

\* _handleReconnect, line 99: the reconnect bound is exceeded.
ReconnectExceeded(attempts) == attempts > maxReconnects

\* provider.isLoggedOut()
IsLoggedOut(reason) == reason = "loggedOut"

\* enterCooldown, line 310.
CooldownTargetLatest(cu, t, durationMs) == t + durationMs

CooldownTarget(cu, t, durationMs) == Max(cu, t + durationMs)

(***************************************************************************)
(* History records.                                                        *)
(***************************************************************************)
NoCall ==
  [op |-> "none", pre |-> "INIT", preCooldownUntil |-> NoTime, preHourly |-> 0,
   preDaily |-> 0, preAttempts |-> 0, preRecovering |-> FALSE,
   preQuiet |-> FALSE,
   result |-> "none", invoked |-> FALSE, scheduled |-> FALSE,
   correlation |-> FALSE, failed |-> 0, appended |-> 0, messageId |-> 0,
   events |-> <<>>, update |-> <<>>, upward |-> <<>>]

ScheduleIdleKeepsPending(timer, t) ==
  IF timer # NoTime THEN timer ELSE t + IdleTimeoutMs

\* _scheduleIdle, lines 144-153, called at time t with the deadline of the
\* pending idle timer (NoTime: none): the pending timer is cleared and a new
\* one armed, so the deadline of the one pending timer is t + 15000.
ScheduleIdle(timer, t) == t + IdleTimeoutMs

\* No call is suspended and no reconnect timer is pending.
Quiet ==
  /\ calls = EmptyBag
  /\ cooldownWaits = EmptyBag
  /\ reconnectTimers = EmptyBag
  /\ initPending = 0

\* The record of a sendMessage call made in the current state.
SendDid(result, invoked) ==
  [NoCall EXCEPT !.op = "sendMessage", !.pre = status,
                 !.preCooldownUntil = cooldownUntil,
                 !.preHourly = Len(HourlySends(sendHistory, now)),
                 !.preDaily = Len(DailySends(sendHistory, now)),
                 !.preRecovering = recovering,
                 !.preQuiet = Quiet,
                 !.result = result, !.invoked = invoked]

\* The record of another handler that ran from the current state.
Did(op, result, invoked, scheduled) ==
  [NoCall EXCEPT !.op = op, !.pre = status, !.preAttempts = reconnectAttempts,
                 !.result = result, !.invoked = invoked, !.scheduled = scheduled]

\* A sendMessage call awaiting provider.validateNumber, or provider.sendMessage;
\* correlation: the call was given correlation metadata that is not empty.
Validating(correlation) == [pc |-> "validate", correlation |-> correlation]
Sending(correlation) == [pc |-> "send", correlation |-> correlation]

\* The record of a step of a sendMessage call after its first await.
CallDid(op, result, correlation) ==
  [NoCall EXCEPT !.op = op, !.pre = status, !.result = result,
                 !.correlation = correlation]
One(x) == SetToBag({x})

\* One more operation from outside.
Spend == ops < MaxOps /\ ops' = ops + 1

\* No dispatch() call made yet.
NoDispatch ==
  [pc |-> "none", count |-> 0, dryRun |-> FALSE, client |-> FALSE,
   canWait |-> FALSE, canCooldown |-> FALSE, length |-> 0, charDelay |-> 0,
   draws |-> <<>>, range |-> <<0, 0>>, steps |-> <<>>, thrown |-> "none",
   error |-> "none", delays |-> <<0, 0>>, cooldownArg |-> 0,
   delayConfig |-> <<0, 0>>]

\* No getVariableDelay() call observed.
NoDelay == [value |-> 0, resamples |-> 0, called |-> FALSE]

\* No step of the pool observed.
NoPoolStep ==
  [op |-> "none", id |-> 0, existed |-> FALSE, returned |-> 0, created |-> 0,
   resolved |-> {}, rejected |-> {}, ready |-> 0]

\* No call of the engine, and no rate-limit check, observed.
NoEngineCall ==
  [op |-> "none", mn |-> 0, mx |-> 0, preMin |-> 0, preMax |-> 0,
   lengths |-> <<>>, charDelays |-> <<>>, delays |-> <<>>]
NoRateCheck ==
  [called |-> FALSE, history |-> <<>>, now |-> 0, threw |-> "none",
   status |-> "READY", cooldownUntil |-> NoTime, sendHistory |-> <<>>]

Init ==
  /\ status = "INIT"
  /\ cooldownUntil = NoTime
  /\ sendHistory = <<>>
  /\ messageTracker = {}
  /\ reconnectAttempts = 0
  /\ idleTimer = NoTime
  /\ reconnectTimers = EmptyBag
  /\ cooldownWaits = EmptyBag
  /\ calls = EmptyBag
  /\ initPending = 0
  /\ disconnectReason = "none"
  /\ socket = FALSE
  /\ now = 1
  /\ ops = 0
  /\ last = NoCall
  /\ recovering = FALSE
  /\ terminal = "none"
  /\ scheduledSinceOpen = 0
  /\ lastT = [from |-> "INIT", to |-> "INIT", events |-> <<>>,
              reason |-> "none", announced |-> "none"]
  /\ tcalls = 0
  /\ minDelay = DefaultMinDelay
  /\ maxDelay = DefaultMaxDelay
  /\ variableDelay = NoDelay
  /\ engineCall = NoEngineCall
  /\ rateCheck = NoRateCheck
  /\ waitListeners = {}
  /\ waitTimers = {}
  /\ waitOutcome = <<>>
  /\ stopping = "none"
  /\ campaign = <<>>
  /\ dispatch = NoDispatch
  /\ clients = <<>>
  /\ sessions = <<>>
  /\ startingSessions = {}
  /\ isLoaded = FALSE
  /\ loads = {}
  /\ waiters = {}
  /\ pcalls = 0
  /\ lastP = NoPoolStep

tvars == <<lastT, tcalls>>
evars == <<minDelay, maxDelay, variableDelay, engineCall>>
rvars == <<rateCheck>>
wvars == <<waitListeners, waitTimers, waitOutcome>>
svars == <<stopping>>
mvars == <<campaign>>
dvars == <<dispatch>>
pvars == <<clients, sessions, startingSessions, isLoaded, loads, waiters,
           pcalls, lastP>>
cvars == <<status, cooldownUntil, sendHistory, messageTracker, reconnectAttempts, idleTimer,
           reconnectTimers, cooldownWaits, calls, initPending, disconnectReason,
           socket, now, ops, last, recovering, terminal, scheduledSinceOpen>>

(***************************************************************************)
(* initialize() and the provider's answer to it.                           *)
(***************************************************************************)
\* initialize() up to `await this.provider.initialize()`.
InitializeStart ==
  /\ status' = Transition(status, "AUTHENTICATING")
  /\ initPending' = initPending + 1

\* initialize() called from outside (SessionManager.startSession, an operator).
Initialize ==
  /\ Spend
  /\ InitializeStart
  /\ last' = Did("initialize", "external", initPending' # initPending, FALSE)
  /\ recovering' = FALSE
  /\ terminal' = "none"
  /\ UNCHANGED <<cooldownUntil, sendHistory, reconnectAttempts, idleTimer,
                 reconnectTimers, cooldownWaits, calls, disconnectReason, now,
                 scheduledSinceOpen, socket,
                 messageTracker, tvars, evars, dvars, pvars, rvars, wvars, svars, mvars>>

\* The timer set by _handleReconnect fires and calls initialize().
ReconnectTimerFires ==
  \E d \in BagToSet(reconnectTimers) :
    /\ d <= now
    /\ InitializeStart
    /\ reconnectTimers' = reconnectTimers (-) One(d)
    /\ recovering' = FALSE
    /\ last' = Did("initialize", "reconnect_timer", initPending' # initPending, FALSE)
    /\ UNCHANGED <<cooldownUntil, sendHistory, reconnectAttempts, idleTimer,
                   cooldownWaits, calls, disconnectReason, now, ops,
                   terminal, scheduledSinceOpen, socket,
                 messageTracker, tvars, evars, dvars, pvars, rvars, wvars, svars, mvars>>

\* provider.initialize() resolves: initialize() returns.  The provider has made
\* its socket and listens to it, so that provider events may follow.
ProviderInitReturns ==
  /\ initPending > 0
  /\ initPending' = initPending - 1
  /\ socket' = TRUE
  /\ recovering' = FALSE
  /\ last' = NoCall
  /\ terminal' = "none"
  /\ UNCHANGED <<status, cooldownUntil, sendHistory, reconnectAttempts, idleTimer,
                 reconnectTimers, cooldownWaits, calls, disconnectReason, now,
                 ops, scheduledSinceOpen, messageTracker,
                 tvars, evars, dvars, pvars, rvars, wvars, svars, mvars>>

\* provider.initialize() rejects: the catch block of initialize().
ProviderInitThrows ==
  /\ initPending > 0
  /\ initPending' = initPending - 1
  /\ status' = Transition(status, "ERROR")
  /\ recovering' = FALSE
  /\ last' = NoCall
  /\ terminal' = "none"
  /\ UNCHANGED <<cooldownUntil, sendHistory, reconnectAttempts, idleTimer,
                 reconnectTimers, cooldownWaits, calls, disconnectReason, now,
                 ops, scheduledSinceOpen, socket,
                 messageTracker, tvars, evars, dvars, pvars, rvars, wvars, svars, mvars>>

(***************************************************************************)
(* Provider events.                                                        *)
(***************************************************************************)
\* provider 'qr'
OnQr ==
  /\ socket
  /\ Spend
  /\ status' = Transition(status, "AUTHENTICATING")
  /\ last' = NoCall
  /\ recovering' = FALSE
  /\ terminal' = "none"
  /\ UNCHANGED <<cooldownUntil, sendHistory, reconnectAttempts, idleTimer,
                 reconnectTimers, cooldownWaits, calls, initPending,
                 disconnectReason, now, scheduledSinceOpen, socket,
                 messageTracker, tvars, evars, dvars, pvars, rvars, wvars, svars, mvars>>

\* provider 'connection.update' with connection = 'open'
OnOpenSkipsConnected(s) == Transition(s, "READY")

\* lines 67-68: the status the 'open' branch leaves, from status s.
OnOpen(s) == Transition(Transition(s, "CONNECTED"), "READY")

OnConnectionOpen ==
  /\ socket
  /\ Spend
  /\ reconnectAttempts' = 0
  /\ status' = OnOpen(status)
  /\ idleTimer' = ScheduleIdle(idleTimer, now)
  /\ scheduledSinceOpen' = 0
  /\ last' = Did("open", "none", FALSE, FALSE)
  /\ recovering' = FALSE
  /\ terminal' = "none"
  /\ UNCHANGED <<cooldownUntil, sendHistory, reconnectTimers, cooldownWaits,
                 calls, initPending, disconnectReason, now, socket,
                 messageTracker, tvars, evars, dvars, pvars, rvars, wvars, svars, mvars>>

\* _handleReconnect from status s, with the provider's disconnect reason dr.
\* The record tells what it did; `timer` is the jitter of the timer it set.
HandleReconnect(s, attempts, dr, jitter) ==
  IF IsLoggedOut(dr)
    THEN [status |-> Transition(s, "ERROR"), attempts |-> attempts,
          timer |-> NoTime, why |-> "logged_out"]
  ELSE IF ReconnectExceeded(attempts + 1)
    THEN [status |-> Transition(s, "ERROR"), attempts |-> attempts + 1,
          timer |-> NoTime, why |-> "reconnect_exceeded"]
  ELSE [status |-> s, attempts |-> attempts + 1, timer |-> jitter,
        why |-> "retry"]

\* provider 'connection.update' with connection = 'close'.  The Baileys
\* provider records the status code of lastDisconnect before it re-emits.
OnConnectionClose ==
  \E reason \in {"none", "loggedOut", "other"},
     jitter \in RandomDelay(ReconnectJitterMin, ReconnectJitterMax) :
    LET dr == IF reason # "none" THEN reason ELSE disconnectReason
        r == HandleReconnect(Transition(status, "DISCONNECTED"),
                             reconnectAttempts, dr, jitter)
    IN /\ socket
       /\ Spend
       /\ disconnectReason' = dr
       /\ status' = r.status
       /\ reconnectAttempts' = r.attempts
       /\ reconnectTimers' = IF r.timer = NoTime THEN reconnectTimers
                             ELSE reconnectTimers (+) One(now + r.timer)
       /\ scheduledSinceOpen' = IF r.timer = NoTime THEN scheduledSinceOpen
                                ELSE scheduledSinceOpen + 1
       /\ last' = Did("close", r.why, FALSE, reconnectTimers' # reconnectTimers)
       /\ terminal' = IF r.why = "retry" THEN terminal ELSE r.why
       /\ recovering' = FALSE
       /\ UNCHANGED <<cooldownUntil, sendHistory, idleTimer, cooldownWaits,
                      calls, initPending, now, socket,
                 messageTracker, tvars, evars, dvars, pvars, rvars, wvars, svars, mvars>>

(***************************************************************************)
(* The idle timer.                                                         *)
(***************************************************************************)
\* Mutant of IdleDemotes: the callback does not look at the status.
IdleDemotesAlways(s) == Transition(s, "IDLE")

\* lines 149-151: the status the callback of the idle timer leaves.
IdleDemotes(s) == IF s = "READY" THEN Transition(s, "IDLE") ELSE s

\* The callback of _scheduleIdle.
IdleTimerFires ==
  /\ idleTimer # NoTime
  /\ idleTimer <= now
  /\ idleTimer' = NoTime
  /\ status' = IdleDemotes(status)
  /\ last' = Did("idle", "none", FALSE, FALSE)
  /\ terminal' = "none"
  /\ UNCHANGED <<cooldownUntil, sendHistory, reconnectAttempts, reconnectTimers,
                 cooldownWaits, calls, initPending, disconnectReason, now,
                 ops, recovering, scheduledSinceOpen, socket,
                 messageTracker, tvars, evars, dvars, pvars, rvars, wvars, svars, mvars>>

(***************************************************************************)
(* sendMessage.                                                            *)
(***************************************************************************)
\* sendMessage rejected before the provider is reached.
SendRejected(newStatus, newCooldownUntil, newHistory, why) ==
  /\ status' = newStatus
  /\ cooldownUntil' = newCooldownUntil
  /\ sendHistory' = newHistory
  /\ UNCHANGED calls
  /\ last' = [SendDid(why, calls' # calls)
                EXCEPT !.events = StatusEvents(status, <<Prepare(status), newStatus>>)]
  /\ recovering' = IF why = "not_ready" THEN recovering ELSE TRUE

\* sendMessage up to `await this.provider.validateNumber(rawNumber)`, or to
\* the error it throws before.
SendMessage ==
  LET s1 == Prepare(status)
      c == EnforceCooldown(s1, cooldownUntil, now)
  IN /\ Spend
     /\ IF ~CanSend(s1)
          THEN SendRejected(s1, cooldownUntil, sendHistory, "not_ready")
        ELSE IF c.threw
          THEN SendRejected(c.status, c.cooldownUntil, sendHistory, "cooldown_active")
        ELSE \E jitter \in RandomDelay(CooldownJitterMin, CooldownJitterMax),
                correlation \in BOOLEAN :
          LET r == EnforceRateLimit(c.status, c.cooldownUntil, sendHistory, now, jitter)
          IN IF r.threw # "none"
               THEN SendRejected(r.status, r.cooldownUntil, r.sendHistory, r.threw)
             ELSE /\ status' = Transition(r.status, "SENDING")
                  /\ cooldownUntil' = r.cooldownUntil
                  /\ sendHistory' = r.sendHistory
                  /\ calls' = calls (+) One(Validating(correlation))
                  /\ last' = [SendDid("sending", calls' # calls)
                                EXCEPT !.events =
                                  StatusEvents(status, <<s1, "SENDING">>)]
                  /\ recovering' = FALSE
     /\ terminal' = "none"
     /\ UNCHANGED <<reconnectAttempts, idleTimer, reconnectTimers, cooldownWaits,
                    initPending, disconnectReason, now, scheduledSinceOpen, socket,
                    messageTracker, tvars, evars, dvars, pvars, rvars, wvars, svars, mvars>>

\* Mutant of FailedEvents: the catch block emits no FAILED event.
FailedEventsNone(correlation) == 0

\* line 243: a FAILED message_status event is emitted if the correlation
\* metadata has a key; the number of events the catch block emits.
FailedEvents(correlation) == IF correlation THEN 1 ELSE 0

\* The catch block of sendMessage (lines 241-254), for a call that was given
\* `correlation` and failed with err: ERROR, the FAILED event, the rethrow.
Catch(correlation, err) ==
  /\ status' = Transition(status, "ERROR")
  /\ last' = [CallDid("sendRejected", err, correlation)
                EXCEPT !.failed = FailedEvents(correlation)]
  /\ recovering' = FALSE
  /\ terminal' = "none"
  /\ UNCHANGED <<cooldownUntil, sendHistory, reconnectAttempts, idleTimer,
                 reconnectTimers, cooldownWaits, initPending, disconnectReason,
                 now, ops, scheduledSinceOpen, socket, messageTracker,
                 tvars, evars, dvars, pvars, rvars, wvars, svars, mvars>>

\* Mutant of AfterValidation: the send is made whatever validation reported.
AfterValidationAlwaysSends(correlation, exists) == One(Sending(correlation))

\* lines 212-217: the calls of provider.sendMessage made once validateNumber
\* has resolved with `exists`.
AfterValidation(correlation, exists) ==
  IF exists THEN One(Sending(correlation)) ELSE EmptyBag

\* provider.validateNumber resolves.  With exists = true provider.sendMessage
\* is called; with exists = false line 213 sets ERROR and line 214 throws
\* into the catch block.
ValidateReturns ==
  \E correlation \in BOOLEAN, exists \in BOOLEAN :
    /\ BagIn(Validating(correlation), calls)
    /\ calls' = (calls (-) One(Validating(correlation)))
                  (+) AfterValidation(correlation, exists)
    /\ IF calls' # calls (-) One(Validating(correlation))
         THEN /\ last' = [CallDid("validated", IF exists THEN "exists"
                                               ELSE "not_exists", correlation)
                           EXCEPT !.invoked = TRUE]
              /\ recovering' = FALSE
              /\ terminal' = "none"
              /\ UNCHANGED <<status, cooldownUntil, sendHistory, reconnectAttempts,
                             idleTimer, reconnectTimers, cooldownWaits,
                             initPending, disconnectReason, now, ops,
                             scheduledSinceOpen, socket, messageTracker,
                             tvars, evars, dvars, pvars, rvars, wvars, svars, mvars>>
         ELSE Catch(correlation, "number_not_registered")

\* provider.validateNumber rejects: the catch block of sendMessage.
ValidateThrows ==
  \E correlation \in BOOLEAN :
    /\ BagIn(Validating(correlation), calls)
    /\ calls' = calls (-) One(Validating(correlation))
    /\ Catch(correlation, "validate_error")

\* _registerSend
RegisterSend(h, t) == Append(h, t)

\* The id a provider result carries: none (0), one it has given before (the
\* mock providers of the tests always answer 'mock'), or a new one.
MessageIds == 0 .. Cardinality(messageTracker) + 1

\* lines 220-226: messageTracker.set(messageId, { ...correlation, ... }); a
\* Map holds one value for a key, the last one set.
Track(tracker, messageId, correlation) ==
  IF messageId # 0
    THEN {e \in tracker : e.messageId # messageId}
           \cup {[messageId |-> messageId, correlation |-> correlation]}
    ELSE tracker

\* provider.sendMessage resolves: the rest of the try block of sendMessage.
ProviderSendReturns ==
  \E correlation \in BOOLEAN, messageId \in MessageIds :
    /\ BagIn(Sending(correlation), calls)
    /\ calls' = calls (-) One(Sending(correlation))
    /\ messageTracker' = Track(messageTracker, messageId, correlation)
    /\ sendHistory' = RegisterSend(sendHistory, now)
    /\ status' = Transition(status, "READY")
    /\ idleTimer' = ScheduleIdle(idleTimer, now)
    /\ recovering' = FALSE
    /\ last' = [CallDid("sendResolved", "ok", correlation)
                  EXCEPT !.appended = Len(sendHistory') - Len(sendHistory),
                         !.messageId = messageId]
    /\ terminal' = "none"
    /\ UNCHANGED <<cooldownUntil, reconnectAttempts, reconnectTimers, cooldownWaits,
                   initPending, disconnectReason, now, ops, scheduledSinceOpen,
                   socket, tvars, evars, dvars, pvars, rvars, wvars, svars, mvars>>

\* provider.sendMessage rejects: the catch block of sendMessage.
ProviderSendThrows ==
  \E correlation \in BOOLEAN :
    /\ BagIn(Sending(correlation), calls)
    /\ calls' = calls (-) One(Sending(correlation))
    /\ Catch(correlation, "send_failure")

(***************************************************************************)
(* enterCooldown.                                                          *)
(***************************************************************************)
\* A suspended enterCooldown call: when its wait ends, and whether it was
\* called with a positive duration in READY, IDLE, SENDING or COOLDOWN.
Wait(due, counted) == [due |-> due, counted |-> counted]

\* enterCooldown(durationMs) up to its await.
EnterCooldown ==
  \E durationMs \in {0, ShortCooldown, LongCooldown} :
    /\ Spend
    /\ IF durationMs = 0
         THEN UNCHANGED <<status, cooldownUntil, cooldownWaits>>
         ELSE /\ cooldownUntil' = CooldownTarget(cooldownUntil, now, durationMs)
              /\ status' = Transition(status, "COOLDOWN")
              /\ cooldownWaits' = cooldownWaits (+)
                   One(Wait(now + durationMs,
                            status \in {"READY", "IDLE", "SENDING", "COOLDOWN"}))
    /\ last' = [Did("enterCooldown", IF durationMs = 0 THEN "noop" ELSE "waiting",
                     FALSE, FALSE)
                 EXCEPT !.preCooldownUntil = cooldownUntil]
    /\ recovering' = FALSE
    /\ terminal' = "none"
    /\ UNCHANGED <<sendHistory, reconnectAttempts, idleTimer, reconnectTimers,
                   calls, initPending, disconnectReason, now, scheduledSinceOpen, socket,
                 messageTracker, tvars, evars, dvars, pvars, rvars, wvars, svars, mvars>>

StillCoolingAlways(s) == TRUE

\* enterCooldown, line 314: the status the call may leave for READY.
StillCooling(s) == s = "COOLDOWN"

\* The wait of an enterCooldown call ends: the rest of enterCooldown.
CooldownWaitEnds ==
  \E w \in BagToSet(cooldownWaits) :
    /\ w.due <= now
    /\ cooldownWaits' = cooldownWaits (-) One(w)
    /\ IF StillCooling(status)
         THEN /\ status' = Transition(status, "READY")
              /\ idleTimer' = ScheduleIdle(idleTimer, now)
         ELSE UNCHANGED <<status, idleTimer>>
    /\ last' = Did("cooldownComplete", "none", FALSE, idleTimer' # idleTimer)
    /\ terminal' = "none"
    /\ UNCHANGED <<cooldownUntil, sendHistory, reconnectAttempts, reconnectTimers,
                   calls, initPending, disconnectReason, now, ops,
                   recovering, scheduledSinceOpen, socket,
                 messageTracker, tvars, evars, dvars, pvars, rvars, wvars, svars, mvars>>

(***************************************************************************)
(* The clock.                                                              *)
(***************************************************************************)
\* The instants after now at which something can change.
Instants ==
  LET all == {idleTimer, cooldownUntil}
             \cup BagToSet(reconnectTimers)
             \cup {w.due : w \in BagToSet(cooldownWaits)}
             \cup {sendHistory[i] + HourMs + 1 : i \in DOMAIN sendHistory}
             \cup {sendHistory[i] + DayMs + 1 : i \in DOMAIN sendHistory}
  IN {t \in all : t > now}

\* Date.now() moves on, to one of these instants.  Timers need not fire on
\* time: the event loop runs them at their deadline or later.
Advance ==
  /\ Spend
  /\ \E t \in Instants : now' = t
  /\ last' = NoCall
  /\ UNCHANGED <<status, cooldownUntil, sendHistory, reconnectAttempts, idleTimer,
                 reconnectTimers, cooldownWaits, calls, initPending,
                 disconnectReason, recovering, terminal, scheduledSinceOpen, socket,
                 messageTracker, tvars, evars, dvars, pvars, rvars, wvars, svars, mvars>>

Next ==
  \/ Initialize
  \/ ReconnectTimerFires
  \/ ProviderInitReturns
  \/ ProviderInitThrows
  \/ OnQr
  \/ OnConnectionOpen
  \/ OnConnectionClose
  \/ IdleTimerFires
  \/ SendMessage
  \/ ValidateReturns
  \/ ValidateThrows
  \/ ProviderSendReturns
  \/ ProviderSendThrows
  \/ EnterCooldown
  \/ CooldownWaitEnds
  \/ Advance

Spec == Init /\ [][Next]_vars

(***************************************************************************)
(* SpecIdle: Spec with the event loop's guarantees.  Time reaches the       *)
(* deadline of a pending idle timer whatever else the program is asked to  *)
(* do, and a timer that is due is run.                                     *)
(***************************************************************************)
\* Date.now() reaches the deadline of the pending idle timer.
IdleDeadline ==
  /\ idleTimer # NoTime
  /\ idleTimer > now
  /\ now' = idleTimer
  /\ last' = NoCall
  /\ UNCHANGED <<status, cooldownUntil, sendHistory, reconnectAttempts, idleTimer,
                 reconnectTimers, cooldownWaits, calls, initPending,
                 disconnectReason, ops, recovering, terminal, scheduledSinceOpen,
                 socket, messageTracker, tvars, evars, dvars, pvars, rvars, wvars, svars, mvars>>

NextIdle ==
  \/ Next
  \/ IdleDeadline

SpecIdle ==
  /\ Init
  /\ [][NextIdle]_vars
  /\ WF_vars(IdleDeadline)
  /\ WF_vars(IdleTimerFires)

(***************************************************************************)
(* SpecM: Spec with the provider's 'message.status' events, which the      *)
(* client republishes as 'message_status' events.                          *)
(***************************************************************************)
\* The statuses _mapReceiptStatus gives to the receipts of the provider.
Receipts == {"DELIVERED", "READ"}

\* this.id, the chipId of the events of the client.
ChipId == "chip"

\* The value messageTracker holds for messageId: the correlation metadata of
\* the call, if it had any, and phone, jid and sentAt; nothing if untracked.
Tracked(tracker, messageId) ==
  IF \E e \in tracker : e.messageId = messageId
    THEN LET e == CHOOSE x \in tracker : x.messageId = messageId
         IN (IF e.correlation THEN [correlationId |-> "correlation"] ELSE <<>>)
              @@ [phone |-> "phone", jid |-> "jid", sentAt |-> "sentAt"]
    ELSE <<>>

\* lines 82-86: { ...tracked, ...update, chipId: this.id }
Payload(tracker, update) ==
  [chipId |-> ChipId] @@ update @@ Tracked(tracker, update.messageId)

\* Mutant of Republished: an event for an untracked id is dropped.
RepublishedIfTracked(tracker, update) ==
  IF Tracked(tracker, update.messageId) = <<>> THEN <<>>
  ELSE <<Payload(tracker, update)>>

\* lines 80-88: the message_status events emitted for one message.status
\* event of the provider.
Republished(tracker, update) == <<Payload(tracker, update)>>

\* lines 80-88: messageTracker after a message.status event for messageId;
\* the handler only reads it.
AfterStatus(tracker, messageId) == tracker

\* provider 'message.status', for a tracked message id or an unknown one.
OnMessageStatus ==
  \E messageId \in 1 .. Cardinality(messageTracker) + 1, receipt \in Receipts :
    LET update == [messageId |-> messageId, status |-> receipt,
                   timestamp |-> "timestamp"]
    IN /\ socket
       /\ Spend
       /\ messageTracker' = AfterStatus(messageTracker, messageId)
       /\ last' = [NoCall EXCEPT !.op = "messageStatus", !.pre = status,
                                 !.update = update,
                                 !.upward = Republished(messageTracker, update)]
       /\ recovering' = FALSE
       /\ terminal' = "none"
       /\ UNCHANGED <<status, cooldownUntil, sendHistory, reconnectAttempts,
                      idleTimer, reconnectTimers, cooldownWaits, calls,
                      initPending, disconnectReason, now, scheduledSinceOpen,
                      socket, tvars, evars, dvars, pvars, rvars, wvars, svars, mvars>>

NextM ==
  \/ Next
  \/ OnMessageStatus

SpecM == Init /\ [][NextM]_vars

(***************************************************************************)
(* SpecT: _transition called directly, as the tests do                     *)
(* (client._transition('AUTHENTICATING', 'test'), ...).                    *)
(***************************************************************************)
\* whatsappClient.js 171: the statuses in which waitUntilReady resolves at once.
AlreadyReadyOnly(s) == s = "READY"

AlreadyReady(s) == s \in {"READY", "IDLE"}

\* whatsappClient.js 181: handleStatus acts on a status event announcing READY
\* or IDLE; events is what one _transition emitted.
Announces(events) ==
  \E i \in DOMAIN events : events[i] \in {"READY", "IDLE"}

\* One settlement of a waitUntilReady promise: resolve or reject was called.
Settle(result, by) == [result |-> result, by |-> by]

\* whatsappClient.js 180-186: every registered handleStatus hears the events;
\* on READY or IDLE it clears its timeout, removes itself and resolves.
HandleStatus(events) ==
  IF Announces(events)
    THEN /\ waitTimers' = waitTimers \ waitListeners
         /\ waitListeners' = {}
         /\ waitOutcome' =
              [n \in DOMAIN waitOutcome |->
                 IF n \in waitListeners
                   THEN [waitOutcome[n] EXCEPT
                           !.settled = Append(@, Settle("resolved", "event"))]
                   ELSE waitOutcome[n]]
    ELSE UNCHANGED wvars

ForceTransition ==
  \E nextState \in STATES :
    /\ tcalls < MaxTransitionCalls
    /\ HandleStatus(Emitted(status, nextState))
    /\ status' = Transition(status, nextState)
    /\ lastT' = [from |-> status, to |-> nextState,
                 events |-> Emitted(status, nextState),
                 reason |-> EmittedReason(status, nextState, "test"),
                 announced |-> IF Emitted(status, nextState) = <<>>
                                 THEN lastT.announced
                                 ELSE Emitted(status, nextState)[1]]
    /\ tcalls' = tcalls + 1
    /\ UNCHANGED <<cooldownUntil, sendHistory, reconnectAttempts, idleTimer,
                   reconnectTimers, cooldownWaits, calls, initPending,
                   disconnectReason, socket, now, ops, last, recovering,
                   terminal, scheduledSinceOpen, messageTracker, evars, dvars, pvars, rvars, svars, mvars>>

NextT == ForceTransition

SpecT == Init /\ [][NextT]_vars

----------------------------------------------------------------------------
\* SpecS: the client of a started session, and SessionManager.stopSession on it.

\* part_006 219-224, whatsappClient.js 332-334, part_006 103-107: stopSession
\* on a session of the pool calls client.shutdown(), which calls
\* provider.destroy(); destroy ends the socket if there is one, and shutdown
\* awaits it.  A client of the pool has been initialized by startSession.
StopSession ==
  /\ stopping = "none"
  /\ status # "INIT"
  /\ Spend
  /\ stopping' = "shutdown"
  /\ last' = Did("stopSession", "none", FALSE, FALSE)
  /\ UNCHANGED <<status, cooldownUntil, sendHistory, messageTracker,
                 reconnectAttempts, idleTimer, reconnectTimers, cooldownWaits,
                 calls, initPending, disconnectReason, socket, now, recovering,
                 terminal, scheduledSinceOpen, tvars, evars, dvars, pvars,
                 rvars, wvars, mvars>>

\* whatsappClient.js 338, part_006 229-231: provider.destroy() has settled;
\* shutdown requests DISCONNECTED and stopSession removes the session from the
\* pool.  The socket was ended by destroy and raises no event from here on.
ShutdownCompletes ==
  /\ stopping = "shutdown"
  /\ stopping' = "stopped"
  /\ status' = Transition(status, "DISCONNECTED")
  /\ socket' = FALSE
  /\ last' = Did("shutdown", "none", FALSE, FALSE)
  /\ UNCHANGED <<cooldownUntil, sendHistory, messageTracker,
                 reconnectAttempts, idleTimer, reconnectTimers, cooldownWaits,
                 calls, initPending, disconnectReason, now, ops, recovering,
                 terminal, scheduledSinceOpen, tvars, evars, dvars, pvars,
                 rvars, wvars, mvars>>

NextS ==
  \/ Next
  \/ StopSession
  \/ ShutdownCompletes

SpecS == Init /\ [][NextS]_vars

----------------------------------------------------------------------------
\* SpecC: CampaignManager.startCampaign dispatching its contacts one after the
\* other, and the 'message_status' handler it registered on the client.

\* A message of the campaign: where its dispatch is, the status held in
\* state.messageStatus[clientMessageId] ("none": no entry), the status of the
\* last message_status event received for it, and how many receipts came.
Message(pc, entry, received, receipts) ==
  [pc |-> pc, entry |-> entry, received |-> received, receipts |-> receipts]

\* excelParser.js 493-502: the handler on an update for a message whose entry
\* is `entry`; the status of the update is stored only in an existing entry.
Handler(entry, update) == IF entry # "none" THEN update ELSE entry

\* excelParser.js 400-428: the loop calls dispatcher.dispatch for the next
\* contact; no entry exists for the new clientMessageId.
CampaignDispatch ==
  /\ Len(campaign) < MaxMessages
  /\ \A i \in DOMAIN campaign : campaign[i].pc \in {"returned", "failed"}
  /\ campaign' = Append(campaign, Message("sending", "none", "none", 0))
  /\ UNCHANGED <<cvars, tvars, evars, dvars, pvars, rvars, wvars, svars>>

\* whatsappClient.js 219-234: client.sendMessage resolves inside dispatch and
\* has emitted message_status SERVER_ACK with the correlation of the message;
\* the handler runs; dispatch goes on to enterCooldown (dispatcher.js 61-63).
CampaignSendAcked ==
  \E i \in DOMAIN campaign :
    /\ campaign[i].pc = "sending"
    /\ campaign' = [campaign EXCEPT
                      ![i].pc = "cooldown",
                      ![i].entry = Handler(@, "SERVER_ACK"),
                      ![i].received = "SERVER_ACK"]
    /\ UNCHANGED <<cvars, tvars, evars, dvars, pvars, rvars, wvars, svars>>

\* whatsappClient.js 240-253, excelParser.js 447-453: client.sendMessage
\* rejects and has emitted message_status FAILED; dispatch rejects and the
\* loop records a failed row, no entry.
CampaignSendFails ==
  \E i \in DOMAIN campaign :
    /\ campaign[i].pc = "sending"
    /\ campaign' = [campaign EXCEPT
                      ![i].pc = "failed",
                      ![i].entry = Handler(@, "FAILED"),
                      ![i].received = "FAILED"]
    /\ UNCHANGED <<cvars, tvars, evars, dvars, pvars, rvars, wvars, svars>>

\* whatsappClient.js 80-88, excelParser.js 492-504: the provider reports a
\* receipt for a message already sent; the client republishes it with the
\* tracked clientMessageId and the handler runs.
CampaignReceipt ==
  \E i \in DOMAIN campaign, receipt \in Receipts :
    /\ campaign[i].pc \in {"cooldown", "returned"}
    /\ campaign[i].receipts < MaxReceipts
    /\ campaign' = [campaign EXCEPT
                      ![i].entry = Handler(@, receipt),
                      ![i].received = receipt,
                      ![i].receipts = @ + 1]
    /\ UNCHANGED <<cvars, tvars, evars, dvars, pvars, rvars, wvars, svars>>

\* dispatcher.js 68-76, excelParser.js 430-436: the cooldown is over, dispatch
\* returns status SERVER_ACK and the loop writes the entry of the message.
CampaignDispatchReturns ==
  \E i \in DOMAIN campaign :
    /\ campaign[i].pc = "cooldown"
    /\ campaign' = [campaign EXCEPT ![i].pc = "returned",
                                    ![i].entry = "SERVER_ACK"]
    /\ UNCHANGED <<cvars, tvars, evars, dvars, pvars, rvars, wvars, svars>>

NextC ==
  \/ CampaignDispatch
  \/ CampaignSendAcked
  \/ CampaignSendFails
  \/ CampaignReceipt
  \/ CampaignDispatchReturns

SpecC == Init /\ [][NextC]_vars

----------------------------------------------------------------------------
\* SpecO: 'open' events on an initialized client whose status is also moved by
\* direct _transition calls, so that the event arrives in every status.
NextO ==
  \/ Initialize
  \/ ProviderInitReturns
  \/ OnConnectionOpen
  \/ ForceTransition

SpecO == Init /\ [][NextO]_vars

----------------------------------------------------------------------------
\* SpecW: waitUntilReady calls on a client whose status moves by _transition.

\* whatsappClient.js 170-191: waitUntilReady. In READY or IDLE the promise is
\* resolved at once; otherwise a timeout and a 'status' listener are registered.
WaitUntilReady ==
  /\ Len(waitOutcome) < MaxWaits
  /\ LET n == Len(waitOutcome) + 1 IN
       IF AlreadyReady(status)
         THEN /\ waitOutcome' =
                   Append(waitOutcome,
                          [at |-> status,
                           settled |-> <<Settle("resolved", "immediate")>>])
              /\ UNCHANGED <<waitListeners, waitTimers>>
         ELSE /\ waitOutcome' =
                   Append(waitOutcome, [at |-> status, settled |-> <<>>])
              /\ waitListeners' = waitListeners \cup {n}
              /\ waitTimers' = waitTimers \cup {n}
  /\ UNCHANGED <<cvars, tvars, evars, dvars, pvars, rvars, svars, mvars>>

\* whatsappClient.js 175-178: the timeout of a waitUntilReady call fires; it
\* removes the call's listener and rejects.
WaitUntilReadyTimesOut ==
  \E n \in waitTimers :
    /\ waitTimers' = waitTimers \ {n}
    /\ waitListeners' = waitListeners \ {n}
    /\ waitOutcome' =
         [waitOutcome EXCEPT
            ![n].settled = Append(@, Settle("rejected", "timeout"))]
    /\ UNCHANGED <<cvars, tvars, evars, dvars, pvars, rvars, svars, mvars>>

NextW ==
  \/ ForceTransition
  \/ WaitUntilReady
  \/ WaitUntilReadyTimesOut

SpecW == Init /\ [][NextW]_vars

(***************************************************************************)
(* SpecE: the ComplianceEngine (modules/compliance/engine.js).             *)
(*                                                                         *)
(* The normalized sample num of getVariableDelay is a real number; the     *)
(* model draws it as n / NumScale for an integer n, below 0, inside        *)
(* [0, NumScale] or above NumScale.                                        *)
(***************************************************************************)
\* Arguments of setDelayRange: a finite number, or -1 for a missing one.
Missing == 0 - 1
DelayInputs ==
  {Missing, 0, 1, SmallDelay, MediumDelay, DefaultMinDelay, DefaultMaxDelay}

\* Samples of num (times NumScale): inside [0, 1], and outside.
SamplesInside == {0, NumScale \div 2, NumScale}
SamplesOutside == {0 - 1, NumScale + 1}

\* line 34: the sample is outside [0, 1].
MustResample(n) == n > NumScale \/ n < 0

\* a * b for a, b >= 0.  JavaScript numbers hold these products exactly; the
\* model records a product above MaxValue as MaxValue.
Times(a, b) ==
  IF a = 0 \/ b = 0 THEN 0
  ELSE IF a > MaxValue \div b THEN MaxValue
  ELSE a * b

\* getVariableDelay() with the samples `draws` (num times NumScale of this
\* call and of the calls it makes).  On a resample num becomes the value the
\* recursive call returns, and the result is floor(minDelay + num * range).
RECURSIVE GetVariableDelay(_, _, _)
GetVariableDelay(minD, maxD, draws) ==
  LET n == Head(draws)
      range == maxD - minD
  IN IF MustResample(n)
       THEN minD + Times(GetVariableDelay(minD, maxD, Tail(draws)), range)
       ELSE minD + ((n * range) \div NumScale)

\* Mutant of DelayRange: an inverted pair is kept as it is.
DelayRangeUnswapped(mn, mx, curMin, curMax) ==
  <<IF mn # Missing THEN mn ELSE curMin, IF mx # Missing THEN mx ELSE curMax>>

\* setDelayRange({ minDelay: mn, maxDelay: mx }) on an engine holding
\* curMin and curMax: the pair <<minDelay, maxDelay>> it leaves.
DelayRange(mn, mx, curMin, curMax) ==
  LET lo == IF mn # Missing THEN mn ELSE curMin
      hi == IF mx # Missing THEN mx ELSE curMax
  IN IF hi < lo THEN <<hi, lo>> ELSE <<lo, hi>>

\* A call of setDelayRange.
SetDelayRange ==
  \E mn \in DelayInputs, mx \in DelayInputs :
    /\ minDelay' = DelayRange(mn, mx, minDelay, maxDelay)[1]
    /\ maxDelay' = DelayRange(mn, mx, minDelay, maxDelay)[2]
    /\ variableDelay' = NoDelay
    /\ engineCall' = [NoEngineCall EXCEPT !.op = "setDelayRange", !.mn = mn,
                                          !.mx = mx, !.preMin = minDelay,
                                          !.preMax = maxDelay]
    /\ UNCHANGED <<cvars, tvars, dvars, pvars, rvars, wvars, svars, mvars>>

\* A call of getVariableDelay(): k samples outside [0, 1], then one inside.
GetVariableDelayCall ==
  \E k \in 0..MaxResamples :
    \E outs \in [1..k -> SamplesOutside], n \in SamplesInside :
      /\ variableDelay' =
           [value |-> GetVariableDelay(minDelay, maxDelay, outs \o <<n>>),
            resamples |-> k, called |-> TRUE]
      /\ engineCall' = NoEngineCall
      /\ UNCHANGED <<minDelay, maxDelay, cvars, tvars, dvars, pvars, rvars, wvars, svars, mvars>>

\* Mutant of GetTypingDelay: past the cap the delay starts from 0 again.
GetTypingDelayWraps(length, charDelay) == (length * charDelay) % TypingCap

\* Mutant of GetTypingDelay: the cap is not applied.
GetTypingDelayUncapped(length, charDelay) == length * charDelay

\* getTypingDelay(message), with charDelay drawn.
GetTypingDelay(length, charDelay) ==
  IF length * charDelay < TypingCap THEN length * charDelay ELSE TypingCap

\* line 45: 100 + Math.random() * 50 lies in [100, 150); its two ends.
CharDelays == {CharDelayBase, CharDelayBase + CharDelaySpread - 1}

\* The shortest text that reaches the cap at every charDelay, and the
\* lengths of the texts given to getTypingDelay.
CappedLength == TypingCap \div CharDelayBase
TextLengths ==
  {0, 1, CharDelayBase, CharDelayBase + 1, CappedLength - 1, CappedLength,
   LongMessage}

\* The last two elements of a sequence.
LastTwo(q) == IF Len(q) <= 2 THEN q ELSE SubSeq(q, Len(q) - 1, Len(q))

\* A call of getTypingDelay(message); the record keeps the call before it.
GetTypingDelayCall ==
  \E length \in TextLengths, charDelay \in CharDelays :
    /\ engineCall' =
         [NoEngineCall EXCEPT
            !.op = "getTypingDelay",
            !.lengths = LastTwo(Append(engineCall.lengths, length)),
            !.charDelays = LastTwo(Append(engineCall.charDelays, charDelay)),
            !.delays = LastTwo(Append(engineCall.delays,
                                      GetTypingDelay(length, charDelay)))]
    /\ UNCHANGED <<minDelay, maxDelay, variableDelay, cvars, tvars, dvars,
                   pvars, rvars, wvars, svars, mvars>>

NextE ==
  \/ SetDelayRange
  \/ GetVariableDelayCall
  \/ GetTypingDelayCall

SpecE == Init /\ [][NextE]_vars

(***************************************************************************)
(* SpecD: the Dispatcher (modules/dispatch/dispatcher.js), one dispatch()  *)
(* call at a time.  The client is what the load balancer returns: its      *)
(* waitUntilReady, sendMessage and enterCooldown resolve or reject.  The   *)
(* field steps lists, in order, what the call did; range is the delay      *)
(* range of the engine when the delays were computed.                      *)
(***************************************************************************)
\* line 37: !client
NoClient(client) == ~client

\* Mutant of ShouldSend: a dry run sends too.
ShouldSendAlways(dryRun) == TRUE

\* line 53: !dryRun
ShouldSend(dryRun) == ~dryRun

\* Mutant of EntersCooldown: the post-send cooldown is skipped.
EntersCooldownNever(canCooldown) == FALSE

\* line 61: client.enterCooldown
EntersCooldown(canCooldown) == canCooldown

\* Mutant of AfterSendRejects: the rejection is swallowed and the call goes on.
AfterSendRejectsGoOn(d, err) ==
  [d EXCEPT !.pc = "cooldown", !.thrown = err,
            !.steps = @ \o <<"sendRejected", "enterCooldown">>]

\* line 58: `await client.sendMessage(...)` rejects with err, and nothing
\* catches it.
AfterSendRejects(d, err) ==
  [d EXCEPT !.pc = "rejected", !.thrown = err, !.error = err,
            !.steps = @ \o <<"sendRejected", "throw">>]

\* dispatch() from line 45 to its next await or to its return, with the
\* engine's range left by setDelayRange(delayConfig).
ComputeDelays(d, range) ==
  LET typingTime == GetTypingDelay(d.length, d.charDelay)
      postSendDelay == GetVariableDelay(range[1], range[2], d.draws)
      d1 == [d EXCEPT !.range = range, !.delays = <<typingTime, postSendDelay>>,
                      !.steps = Append(@, "delays")]
  IN IF ShouldSend(d.dryRun)
       THEN [d1 EXCEPT !.pc = "typing", !.steps = Append(@, "typing")]
       ELSE [d1 EXCEPT !.pc = "returned", !.steps = Append(@, "return")]

\* payload.delayConfig: absent, in order, and reversed.
DelayConfigs ==
  {<<Missing, Missing>>, <<SmallDelay, MediumDelay>>, <<MediumDelay, SmallDelay>>}
\* Samples of getVariableDelay() in a dispatch: without and with a resample.
Draws ==
  {<<0>>, <<NumScale>>, <<0 - 1, NumScale \div 2>>, <<NumScale + 1, NumScale>>}

\* dispatch(payload) up to its first await, its throw or its return.
Dispatch ==
  \E dryRun \in BOOLEAN, client \in BOOLEAN, canWait \in BOOLEAN,
     canCooldown \in BOOLEAN, length \in {1, LongMessage},
     charDelay \in CharDelays, delayConfig \in DelayConfigs, draws \in Draws :
    LET d0 == [NoDispatch EXCEPT !.count = dispatch.count + 1,
                 !.dryRun = dryRun, !.client = client, !.canWait = canWait,
                 !.canCooldown = canCooldown, !.length = length,
                 !.charDelay = charDelay, !.draws = draws,
                 !.delayConfig = delayConfig,
                 !.steps = <<"getNextClient">>]
        range == DelayRange(delayConfig[1], delayConfig[2], minDelay, maxDelay)
    IN /\ dispatch.pc \in {"none", "returned", "rejected"}
       /\ dispatch.count < MaxDispatches
       /\ client \/ (~canWait /\ ~canCooldown)
       /\ IF NoClient(client)
            THEN /\ dispatch' = [d0 EXCEPT !.pc = "rejected",
                                   !.error = "no_client",
                                   !.steps = Append(@, "throw")]
                 /\ UNCHANGED <<minDelay, maxDelay>>
          ELSE IF canWait
            THEN /\ dispatch' = [d0 EXCEPT !.pc = "waitReady",
                                   !.range = delayConfig,
                                   !.steps = Append(@, "waitUntilReady")]
                 /\ UNCHANGED <<minDelay, maxDelay>>
          ELSE /\ dispatch' = ComputeDelays(d0, range)
               /\ minDelay' = range[1]
               /\ maxDelay' = range[2]
       /\ UNCHANGED <<variableDelay, engineCall, cvars, tvars, pvars, rvars, wvars, svars, mvars>>

\* client.waitUntilReady resolves: the call goes on from line 45.
WaitReadyResolves ==
  LET range == DelayRange(dispatch.range[1], dispatch.range[2], minDelay, maxDelay)
  IN /\ dispatch.pc = "waitReady"
     /\ dispatch' = ComputeDelays([dispatch EXCEPT !.steps = Append(@, "ready")],
                                  range)
     /\ minDelay' = range[1]
     /\ maxDelay' = range[2]
     /\ UNCHANGED <<variableDelay, engineCall, cvars, tvars, pvars, rvars, wvars, svars, mvars>>

\* client.waitUntilReady rejects (timeout): dispatch rejects.
WaitReadyRejects ==
  /\ dispatch.pc = "waitReady"
  /\ dispatch' = [dispatch EXCEPT !.pc = "rejected", !.thrown = "ready_timeout",
                                  !.error = "ready_timeout",
                                  !.steps = @ \o <<"readyRejected", "throw">>]
  /\ UNCHANGED <<minDelay, maxDelay, variableDelay, engineCall, cvars, tvars, pvars, rvars, wvars, svars, mvars>>

\* The typing-delay timer fires: client.sendMessage is called.
TypingElapses ==
  /\ dispatch.pc = "typing"
  /\ dispatch' = [dispatch EXCEPT !.pc = "sending",
                                  !.steps = @ \o <<"typed", "sendMessage">>]
  /\ UNCHANGED <<minDelay, maxDelay, variableDelay, engineCall, cvars, tvars, pvars, rvars, wvars, svars, mvars>>

\* client.sendMessage resolves: enterCooldown(postSendDelay), or the return.
SendResolves ==
  /\ dispatch.pc = "sending"
  /\ dispatch' =
       IF EntersCooldown(dispatch.canCooldown)
         THEN [dispatch EXCEPT !.pc = "cooldown",
                               !.cooldownArg = dispatch.delays[2],
                               !.steps = @ \o <<"sent", "enterCooldown">>]
         ELSE [dispatch EXCEPT !.pc = "returned",
                               !.steps = @ \o <<"sent", "return">>]
  /\ UNCHANGED <<minDelay, maxDelay, variableDelay, engineCall, cvars, tvars, pvars, rvars, wvars, svars, mvars>>

SendErrors == {"not_ready", "rate_limit", "send_failure"}

\* client.sendMessage rejects.
SendRejects ==
  \E err \in SendErrors :
    /\ dispatch.pc = "sending"
    /\ dispatch' = AfterSendRejects(dispatch, err)
    /\ UNCHANGED <<minDelay, maxDelay, variableDelay, engineCall, cvars, tvars, pvars, rvars, wvars, svars, mvars>>

\* client.enterCooldown resolves: dispatch returns its result.
CooldownResolves ==
  /\ dispatch.pc = "cooldown"
  /\ dispatch' = [dispatch EXCEPT !.pc = "returned",
                                  !.steps = @ \o <<"cooled", "return">>]
  /\ UNCHANGED <<minDelay, maxDelay, variableDelay, engineCall, cvars, tvars, pvars, rvars, wvars, svars, mvars>>

NextD ==
  \/ Dispatch
  \/ WaitReadyResolves
  \/ WaitReadyRejects
  \/ TypingElapses
  \/ SendResolves
  \/ SendRejects
  \/ CooldownResolves

SpecD == Init /\ [][NextD]_vars

(***************************************************************************)
(* SpecR: _enforceRateLimit on its own, on a READY client whose            *)
(* sendHistory and clock are drawn: timestamps in push order, none later   *)
(* than the clock, around the edges of the two windows.                    *)
(***************************************************************************)
\* Date.now() at the check.
CheckTime == 2 * DayMs

\* How long before the check a send of the history was registered.
Ages == {0, 1, HourMs - 1, HourMs, HourMs + 1, DayMs - 1, DayMs, DayMs + 1}

\* The histories _registerSend can have built by time t.
Histories(t) ==
  {h \in UNION {[1 .. k -> {t - a : a \in Ages}] : k \in 0 .. MaxHistory} :
     \A i \in 1 .. Len(h) - 1 : h[i] <= h[i + 1]}

\* A call of _enforceRateLimit.
RateLimitCheck ==
  \E h \in Histories(CheckTime),
     jitter \in RandomDelay(CooldownJitterMin, CooldownJitterMax) :
    LET r == EnforceRateLimit("READY", NoTime, h, CheckTime, jitter)
    IN /\ rateCheck' = [called |-> TRUE, history |-> h, now |-> CheckTime,
                        threw |-> r.threw, status |-> r.status,
                        cooldownUntil |-> r.cooldownUntil,
                        sendHistory |-> r.sendHistory]
       /\ UNCHANGED <<cvars, tvars, evars, dvars, pvars, wvars, svars, mvars>>

NextR == RateLimitCheck

SpecR == Init /\ [][NextR]_vars

(***************************************************************************)
(* SpecP: the SessionManager (the pool of WhatsAppClients), with            *)
(* startSession, loadSessions and waitForReady calls in any interleaving    *)
(* and the status events of the pooled clients.                             *)
(***************************************************************************)
Ids == 1 .. MaxIds

\* What readdirSync finds in the sessions directory, sorted by name.
Entries == {<<>>, <<1>>, <<1, 2>>}

PoolCall == pcalls < MaxPoolCalls /\ pcalls' = pcalls + 1

\* Mutant of AlreadyStarted: startSession never finds the id in the pool.
AlreadyStartedNever(id) == FALSE

\* startSession, line 150: this.sessions.has(id)
AlreadyStarted(id) == id \in DOMAIN sessions

\* loadSessions, line 252: the id is started or starting.
AlreadyLoaded(id) == id \in DOMAIN sessions \/ id \in startingSessions

\* client.isReady()
IsReady(s) == s \in {"READY", "IDLE"}

\* getActiveSessions(): the pooled clients that are ready.
ActiveSessions(cs, ss) == {ss[id] : id \in {i \in DOMAIN ss : IsReady(cs[ss[i]].status)}}

\* waitForReady, line 184: hasEnoughReady()
HasEnoughReady(cs, ss, minReady) == Cardinality(ActiveSessions(cs, ss)) >= minReady

\* startSession(id), lines 154-168: a client is created, pooled and
\* initialized; initialize() runs up to its await and leaves AUTHENTICATING.
NewClient(id) ==
  [id |-> id, status |-> Transition("INIT", "AUTHENTICATING"), initialized |-> 1]

\* The effect of startSession(id) on the pool.
Started(id) ==
  IF AlreadyStarted(id)
    THEN [clients |-> clients, sessions |-> sessions,
          startingSessions |-> startingSessions,
          returned |-> sessions[id], created |-> 0]
    ELSE [clients |-> Append(clients, NewClient(id)),
          sessions |-> (id :> (Len(clients) + 1)) @@ sessions,
          startingSessions |-> startingSessions \cup {id},
          returned |-> Len(clients) + 1, created |-> 1]

\* startSession(id) called from outside.
StartSession ==
  \E id \in Ids :
    LET r == Started(id)
    IN /\ PoolCall
       /\ clients' = r.clients
       /\ sessions' = r.sessions
       /\ startingSessions' = r.startingSessions
       /\ lastP' = [NoPoolStep EXCEPT !.op = "startSession", !.id = id,
                                      !.existed = id \in DOMAIN sessions,
                                      !.returned = r.returned,
                                      !.created = r.created]
       /\ UNCHANGED <<isLoaded, loads, waiters, cvars, tvars, evars, dvars, rvars, wvars, svars, mvars>>

\* The promise of client.initialize() settles: the finally of line 163.
InitSettles ==
  \E id \in startingSessions :
    /\ startingSessions' = startingSessions \ {id}
    /\ lastP' = [NoPoolStep EXCEPT !.op = "initSettled", !.id = id]
    /\ UNCHANGED <<clients, sessions, isLoaded, loads, waiters, pcalls,
                   cvars, tvars, evars, dvars, rvars, wvars, svars, mvars>>

\* loadSessions, lines 252-255: the entries skipped before the next start.
RECURSIVE SkipLoaded(_)
SkipLoaded(rest) ==
  IF rest = <<>> THEN rest
  ELSE IF AlreadyLoaded(Head(rest)) THEN SkipLoaded(Tail(rest))
  ELSE rest

\* The loop of loadSessions from the entries `rest` on, up to its next
\* `await this.startSession(id)` or to line 259; n names the call.
LoadRun(n, rest, others) ==
  LET r == SkipLoaded(rest)
  IN IF r = <<>>
       THEN /\ isLoaded' = TRUE
            /\ loads' = others
            /\ lastP' = [NoPoolStep EXCEPT !.op = "loaded"]
            /\ UNCHANGED <<clients, sessions, startingSessions>>
       ELSE LET st == Started(Head(r))
            IN /\ clients' = st.clients
               /\ sessions' = st.sessions
               /\ startingSessions' = st.startingSessions
               /\ loads' = others \cup {[n |-> n, rest |-> Tail(r)]}
               /\ lastP' = [NoPoolStep EXCEPT !.op = "restore", !.id = Head(r),
                                              !.existed = Head(r) \in DOMAIN sessions,
                                              !.returned = st.returned,
                                              !.created = st.created]
               /\ UNCHANGED isLoaded

\* loadSessions() called from outside; the directory may be missing.
LoadSessions ==
  /\ PoolCall
  /\ IF isLoaded
       THEN /\ lastP' = [NoPoolStep EXCEPT !.op = "loadSkipped"]
            /\ UNCHANGED <<clients, sessions, startingSessions, isLoaded, loads>>
       ELSE \/ /\ lastP' = [NoPoolStep EXCEPT !.op = "noDirectory"]
               /\ UNCHANGED <<clients, sessions, startingSessions, isLoaded, loads>>
            \/ \E entries \in Entries : LoadRun(pcalls', entries, loads)
  /\ UNCHANGED <<waiters, cvars, tvars, evars, dvars, rvars, wvars, svars, mvars>>

\* A loadSessions() call goes on after `await this.startSession(id)`.
LoadResumes ==
  \E l \in loads :
    /\ LoadRun(l.n, l.rest, loads \ {l})
    /\ UNCHANGED <<waiters, pcalls, cvars, tvars, evars, dvars, rvars, wvars, svars, mvars>>

\* waitForReady, lines 195-200: the waiters whose handleStatus runs on a
\* status event of client c and finds enough ready clients.
Resolving(cs, ss, c) ==
  {w \in waiters : c \in w.listening /\ HasEnoughReady(cs, ss, w.minReady)}

\* A pooled client calls _transition(nextState); its status event, if any,
\* runs the handleStatus listeners attached to it.
ClientStatus ==
  \E c \in DOMAIN clients, nextState \in STATES :
    LET cs == [clients EXCEPT ![c].status = Transition(clients[c].status, nextState)]
        done == IF Emitted(clients[c].status, nextState) = <<>> THEN {}
                ELSE Resolving(cs, sessions, c)
    IN /\ PoolCall
       /\ cs # clients
       /\ clients' = cs
       /\ waiters' = waiters \ done
       /\ lastP' = [NoPoolStep EXCEPT !.op = "status", !.returned = c,
                                      !.resolved = {w.n : w \in done},
                                      !.ready = Cardinality(ActiveSessions(cs, sessions))]
       /\ UNCHANGED <<sessions, startingSessions, isLoaded, loads,
                      cvars, tvars, evars, dvars, rvars, wvars, svars, mvars>>

\* waitForReady({ minReady, timeoutMs }) called from outside: it returns at
\* once, or attaches handleStatus to the clients pooled now and waits.
WaitForReady ==
  \E minReady \in 1 .. MaxMinReady :
    /\ PoolCall
    /\ IF HasEnoughReady(clients, sessions, minReady)
         THEN /\ lastP' = [NoPoolStep EXCEPT !.op = "waitForReady",
                                             !.resolved = {pcalls'},
                                             !.ready = Cardinality(ActiveSessions(clients, sessions))]
              /\ UNCHANGED waiters
         ELSE /\ waiters' = waiters \cup
                   {[n |-> pcalls', minReady |-> minReady,
                     listening |-> {sessions[id] : id \in DOMAIN sessions}]}
              /\ lastP' = [NoPoolStep EXCEPT !.op = "waitForReady",
                                             !.ready = Cardinality(ActiveSessions(clients, sessions))]
    /\ UNCHANGED <<clients, sessions, startingSessions, isLoaded, loads,
                   cvars, tvars, evars, dvars, rvars, wvars, svars, mvars>>

\* The timeout of a waitForReady call that has not settled (lines 190-193).
WaitTimesOut ==
  \E w \in waiters :
    /\ waiters' = waiters \ {w}
    /\ lastP' = [NoPoolStep EXCEPT !.op = "timeout", !.rejected = {w.n},
                                   !.ready = Cardinality(ActiveSessions(clients, sessions))]
    /\ UNCHANGED <<clients, sessions, startingSessions, isLoaded, loads, pcalls,
                   cvars, tvars, evars, dvars, rvars, wvars, svars, mvars>>

NextP ==
  \/ StartSession
  \/ InitSettles
  \/ LoadSessions
  \/ LoadResumes
  \/ ClientStatus
  \/ WaitForReady
  \/ WaitTimesOut

SpecP == Init /\ [][NextP]_vars

(***************************************************************************)
(* Properties.                                                             *)
(***************************************************************************)
SendableStates == {"READY", "IDLE"}
RateLimitErrors == {"rate_limit_hour", "rate_limit_day"}
SentLast == last.op = "sendMessage"

\* C1: a sendMessage call made in a status other than READY and IDLE is
\* rejected for the status, and reaches neither provider.validateNumber nor
\* provider.sendMessage (no call is left awaiting the provider).
C1_NotReadyRejects ==
  (SentLast /\ last.pre \notin SendableStates)
    => (last.result = "not_ready" /\ ~last.invoked)

C1_Witness ==
  SentLast /\ last.pre = "DISCONNECTED" /\ last.result = "not_ready"

\* C2: the sends the provider completed within the trailing hour never
\* exceed maxMessagesPerHour, and those within the trailing 24 hours never
\* exceed maxMessagesPerDay.  (_registerSend records every completed send.)
C2_RateWindows ==
  /\ Len(HourlySends(sendHistory, now)) <= maxMessagesPerHour
  /\ Len(DailySends(sendHistory, now)) <= maxMessagesPerDay

\* C3 as claimed: with maxMessagesPerHour sends inside the trailing hour, a
\* sendMessage call made in READY or IDLE is rejected with a rate-limit error
\* without reaching the provider, and leaves COOLDOWN with cooldownUntil >= now.
C3_RateLimitError ==
  (SentLast /\ last.pre \in SendableStates
     /\ last.preHourly >= maxMessagesPerHour)
    => /\ last.result \in RateLimitErrors
       /\ ~last.invoked
       /\ status = "COOLDOWN"
       /\ cooldownUntil >= now

\* C3 as amended: the rejection is the rate-limit error, or the
\* cooldown-active error when cooldownUntil still lay in the future.
C3_RateLimitOrCooldown ==
  (SentLast /\ last.pre \in SendableStates
     /\ last.preHourly >= maxMessagesPerHour)
    => /\ \/ last.result \in RateLimitErrors
          \/ last.result = "cooldown_active" /\ last.preCooldownUntil > now
       /\ ~last.invoked
       /\ status = "COOLDOWN"
       /\ cooldownUntil >= now

C3_Witness ==
  /\ SentLast /\ last.pre \in SendableStates
  /\ last.preHourly = maxMessagesPerHour
  /\ last.result = "rate_limit_hour"
  /\ status = "COOLDOWN"

\* C4: a sendMessage call made while cooldownUntil lies in the future is
\* rejected without reaching the provider, and the cooldown rejects a call
\* only while cooldownUntil lies in the future.
C4_CooldownHonoured ==
  /\ (SentLast /\ last.preCooldownUntil # NoTime /\ now < last.preCooldownUntil)
       => (last.result \in {"not_ready", "cooldown_active"} /\ ~last.invoked)
  /\ (SentLast /\ last.result = "cooldown_active")
       => (last.preCooldownUntil # NoTime /\ now < last.preCooldownUntil)

C4_Witness ==
  /\ SentLast /\ last.pre \in SendableStates
  /\ now < last.preCooldownUntil
  /\ last.result = "cooldown_active"

\* The transition table as the specification lists it.
ClaimedTable ==
  {<<"INIT", "AUTHENTICATING">>, <<"INIT", "ERROR">>,
   <<"AUTHENTICATING", "CONNECTED">>, <<"AUTHENTICATING", "ERROR">>,
   <<"AUTHENTICATING", "DISCONNECTED">>,
   <<"CONNECTED", "READY">>, <<"CONNECTED", "ERROR">>,
   <<"CONNECTED", "DISCONNECTED">>,
   <<"READY", "SENDING">>, <<"READY", "IDLE">>, <<"READY", "COOLDOWN">>,
   <<"READY", "ERROR">>, <<"READY", "DISCONNECTED">>,
   <<"IDLE", "READY">>, <<"IDLE", "SENDING">>, <<"IDLE", "COOLDOWN">>,
   <<"IDLE", "ERROR">>, <<"IDLE", "DISCONNECTED">>,
   <<"SENDING", "COOLDOWN">>, <<"SENDING", "READY">>, <<"SENDING", "ERROR">>,
   <<"SENDING", "DISCONNECTED">>,
   <<"COOLDOWN", "READY">>, <<"COOLDOWN", "IDLE">>, <<"COOLDOWN", "ERROR">>,
   <<"COOLDOWN", "DISCONNECTED">>,
   <<"DISCONNECTED", "AUTHENTICATING">>, <<"DISCONNECTED", "ERROR">>,
   <<"ERROR", "AUTHENTICATING">>, <<"ERROR", "DISCONNECTED">>}

Requested == <<lastT.from, lastT.to>>

\* C5 as claimed: _transition called with a pair outside the table leaves
\* ERROR, and not the requested state.
C5_OutsideTableIsError ==
  (tcalls > 0 /\ Requested \notin ClaimedTable)
    => (status = "ERROR" /\ status # lastT.to)

\* C5 as amended: the same for a pair of two different states; a request for
\* the current state changes nothing.
C5_OutsideTableIsErrorUnlessSame ==
  /\ (tcalls > 0 /\ Requested \notin ClaimedTable /\ lastT.from # lastT.to)
       => (status = "ERROR" /\ status # lastT.to)
  /\ (tcalls > 0 /\ lastT.from = lastT.to) => status = lastT.from

C5_Witness ==
  tcalls > 0 /\ lastT.from = "IDLE" /\ lastT.to = "CONNECTED" /\ status = "ERROR"

\* C6: _transition called with a pair of the table leaves the requested
\* state, and the table of the code holds the thirty listed pairs and no other.
C6_TableTransitions ==
  /\ \A s \in STATES, n \in STATES : IsAllowed(s, n) <=> <<s, n>> \in ClaimedTable
  /\ (tcalls > 0 /\ Requested \in ClaimedTable) => status = lastT.to

C6_Witness ==
  tcalls > 0 /\ lastT.from = "COOLDOWN" /\ lastT.to = "IDLE" /\ status = "IDLE"

\* C7: after a rejection by the rate limit or by the cooldown, with nothing
\* but the clock, the idle timer and further sendMessage calls since, a
\* sendMessage call made once cooldownUntil has passed and the windows have
\* room again reaches SENDING.  (Stated for a client with no suspended call
\* and no pending reconnect timer, so that nothing else is left to change
\* the status later.)
C7_RecoversByTime ==
  (SentLast /\ last.preRecovering /\ last.preQuiet /\ last.pre = "COOLDOWN"
     /\ last.preCooldownUntil # NoTime /\ now >= last.preCooldownUntil
     /\ last.preHourly < maxMessagesPerHour
     /\ last.preDaily < maxMessagesPerDay)
    => (last.result = "sending" /\ status = "SENDING")

\* C8: enterCooldown(ms), ms > 0, called in READY, IDLE, SENDING or COOLDOWN
\* leaves COOLDOWN at once, and the status is not READY before ms has passed
\* since the call.
C8_NoEarlyReady ==
  /\ (last.op = "enterCooldown" /\ last.result = "waiting"
        /\ last.pre \in {"READY", "IDLE", "SENDING", "COOLDOWN"})
       => status = "COOLDOWN"
  /\ status = "READY"
       => \A w \in BagToSet(cooldownWaits) : w.counted => w.due <= now

\* C9: once ERROR was entered because the reconnect bound was exceeded or the
\* provider reported a logout, the status stays ERROR and no reconnect timer
\* calls initialize(), whatever close events and reconnect timers follow.
C9_TerminalError ==
  terminal # "none"
    => /\ status = "ERROR"
       /\ ~(last.op = "initialize" /\ last.result = "reconnect_timer")

\* C10: at most maxReconnects reconnect timers are scheduled since the last
\* open event (or since construction); a close event without logout adds one
\* to reconnectAttempts; a timer is scheduled only if the counter it leaves
\* is at most maxReconnects; an open event leaves the counter at 0.
C10_BoundedReconnects ==
  /\ scheduledSinceOpen <= maxReconnects
  /\ (last.op = "close" /\ last.result # "logged_out")
       => reconnectAttempts = last.preAttempts + 1
  /\ (last.op = "close" /\ last.scheduled) => reconnectAttempts <= maxReconnects
  /\ (last.op = "close" /\ last.result = "retry") => last.scheduled
  /\ last.op = "open" => reconnectAttempts = 0

C10_Witness ==
  /\ last.op = "close" /\ last.result = "reconnect_exceeded"
  /\ scheduledSinceOpen = maxReconnects
  /\ reconnectAttempts = maxReconnects + 1

\* C11: a close event that is neither a logout nor beyond the reconnect bound
\* leaves DISCONNECTED with a reconnect timer scheduled, and the firing of a
\* reconnect timer calls provider.initialize() and leaves AUTHENTICATING.
C11_ReconnectReinitializes ==
  /\ (last.op = "close" /\ last.result = "retry")
       => (status = "DISCONNECTED" /\ last.scheduled)
  /\ (last.op = "initialize" /\ last.result = "reconnect_timer")
       => (last.invoked /\ status = "AUTHENTICATING")

\* C12: with minDelay <= maxDelay, getVariableDelay() returns a value in
\* [minDelay, maxDelay], whether or not it took the resample path.
C12_DelayInRange ==
  (variableDelay.called /\ minDelay <= maxDelay)
    => (minDelay <= variableDelay.value /\ variableDelay.value <= maxDelay)

\* Steps of the dispatch() call in progress.
Stepped(x) == \E i \in DOMAIN dispatch.steps : dispatch.steps[i] = x
TimesDone(x) == Cardinality({i \in DOMAIN dispatch.steps : dispatch.steps[i] = x})
ComputedDelays ==
  <<GetTypingDelay(dispatch.length, dispatch.charDelay),
    GetVariableDelay(dispatch.range[1], dispatch.range[2], dispatch.draws)>>

\* C13: a dispatch with dryRun = true never suspends for the typing delay,
\* never calls sendMessage and never calls enterCooldown; with a client it
\* returns once the ready-wait is over; and the delays of a returned result,
\* dry run or not, are those the engine computes from the same inputs.
C13_DryRunSendsNothing ==
  /\ dispatch.dryRun
       => (~Stepped("typing") /\ ~Stepped("sendMessage") /\ ~Stepped("enterCooldown"))
  /\ (dispatch.dryRun /\ Stepped("delays")) => dispatch.pc = "returned"
  /\ dispatch.pc = "returned" => dispatch.delays = ComputedDelays

C13_Witness ==
  /\ dispatch.pc = "returned" /\ dispatch.dryRun /\ dispatch.canWait
  /\ dispatch.delays[1] = TypingCap /\ dispatch.delays[2] > 0

\* The steps of a dispatch that sent through a Connection (a client with
\* waitUntilReady and enterCooldown) and returned.
FullDispatch ==
  <<"getNextClient", "waitUntilReady", "ready", "delays", "typing", "typed",
    "sendMessage", "sent", "enterCooldown", "cooled", "return">>

\* C14: a dispatch without dryRun that returns a result on a Connection did,
\* in this order: ready-wait, typing delay, sendMessage, its resolution,
\* enterCooldown(postSendDelay), its completion, return; no dispatch calls
\* sendMessage twice.
C14_DispatchOrder ==
  /\ (dispatch.pc = "returned" /\ ~dispatch.dryRun
        /\ dispatch.canWait /\ dispatch.canCooldown)
       => (dispatch.steps = FullDispatch
           /\ dispatch.cooldownArg = dispatch.delays[2])
  /\ (dispatch.pc = "returned" /\ ~dispatch.dryRun)
       => TimesDone("sendMessage") = 1
  /\ TimesDone("sendMessage") <= 1

C14_Witness ==
  /\ dispatch.pc = "returned" /\ ~dispatch.dryRun
  /\ dispatch.canWait /\ dispatch.canCooldown
  /\ dispatch.steps = FullDispatch

\* C15: without a client dispatch rejects before any other step; when the
\* ready-wait rejects, dispatch rejects with that error and neither computes
\* delays nor sends; when sendMessage rejects, dispatch rejects with that
\* error and does not call enterCooldown.
C15_ErrorsPropagate ==
  /\ (dispatch.pc # "none" /\ ~dispatch.client)
       => (dispatch.pc = "rejected" /\ dispatch.error = "no_client"
           /\ dispatch.steps = <<"getNextClient", "throw">>)
  /\ Stepped("readyRejected")
       => (dispatch.pc = "rejected" /\ dispatch.error = dispatch.thrown
           /\ ~Stepped("delays") /\ ~Stepped("typing") /\ ~Stepped("sendMessage"))
  /\ Stepped("sendRejected")
       => (dispatch.pc = "rejected" /\ dispatch.error = dispatch.thrown
           /\ ~Stepped("enterCooldown"))

C15_Witness ==
  /\ dispatch.pc = "rejected" /\ dispatch.canCooldown
  /\ Stepped("sendRejected") /\ dispatch.error = "rate_limit"

\* Calls of provider.sendMessage in flight, and calls awaiting validation.
SendingCount(b) == CopiesIn(Sending(TRUE), b) + CopiesIn(Sending(FALSE), b)
ValidatingCount(b) == CopiesIn(Validating(TRUE), b) + CopiesIn(Validating(FALSE), b)

\* C16: every step that invokes provider.sendMessage is the step in which
\* provider.validateNumber resolved with exists = true for a call that was
\* awaiting it; and the step in which validation reports that the target
\* does not exist rejects the call, in ERROR, without invoking
\* provider.sendMessage.
C16_SendAfterValidation ==
  [][/\ SendingCount(calls') > SendingCount(calls)
          => /\ last'.op = "validated" /\ last'.result = "exists"
             /\ ValidatingCount(calls') = ValidatingCount(calls) - 1
             /\ SendingCount(calls') = SendingCount(calls) + 1
     /\ (calls' # calls /\ last'.result \in {"not_exists", "number_not_registered"})
          => /\ last'.op = "sendRejected"
             /\ SendingCount(calls') = SendingCount(calls)
             /\ ValidatingCount(calls') = ValidatingCount(calls) - 1
             /\ status' = "ERROR"]_vars

C16_Witness ==
  /\ last.op = "validated" /\ last.result = "exists" /\ last.invoked
  /\ SendingCount(calls) = 1 /\ status = "SENDING"

\* C17: when sendMessage resolves, one timestamp was appended to
\* sendHistory for the call, the message id of the provider's result, if it
\* has one, is in messageTracker with the correlation metadata of the call,
\* and the status is READY.
C17_ResolvedSend ==
  last.op = "sendResolved"
    => /\ last.appended = 1
       /\ last.messageId # 0
            => [messageId |-> last.messageId, correlation |-> last.correlation]
                 \in messageTracker
       /\ status = "READY"

\* C18: when sendMessage rejects after it moved to SENDING (validateNumber
\* rejected, the number does not exist, or provider.sendMessage rejected), the
\* status is ERROR, the error that occurred is the one propagated, and one
\* FAILED message_status event was emitted if the call was given correlation
\* metadata that is not empty, none otherwise.
C18_RejectedSend ==
  last.op = "sendRejected"
    => /\ status = "ERROR"
       /\ last.result \in {"validate_error", "number_not_registered", "send_failure"}
       /\ last.failed = IF last.correlation THEN 1 ELSE 0

\* A call given correlation metadata was rejected by the provider's send
\* while a close event had moved the status to DISCONNECTED.
C18_Witness ==
  /\ last.op = "sendRejected"
  /\ last.result = "send_failure"
  /\ last.correlation
  /\ last.failed = 1
  /\ last.pre = "DISCONNECTED"
  /\ status = "ERROR"

\* The Connection has just entered READY through a provider 'open' event, a
\* completed enterCooldown or a resolved send.
EnteredReady ==
  /\ status = "READY"
  /\ \/ last.op = "open"
     \/ last.op = "sendResolved"
     \/ last.op = "cooldownComplete" /\ last.pre = "COOLDOWN"

\* C19: once the Connection has entered READY through an 'open' event, a
\* completed enterCooldown or a resolved send, its idle timer is pending and
\* the status eventually leaves READY; the only step that takes READY to IDLE
\* is the idle timer, so without another transition that is the demotion to
\* IDLE.  An idle timer that fires in any status other than READY leaves the
\* status and every other field of the Connection as they were.
C19_IdleDemotion ==
  /\ [](EnteredReady => idleTimer # NoTime)
  /\ EnteredReady ~> (status # "READY")
  /\ [][(status = "READY" /\ status' = "IDLE") => last'.op = "idle"]_vars
  /\ [][last'.op = "idle"
         => /\ status = "READY" => status' = "IDLE"
            /\ status # "READY"
                 => UNCHANGED <<status, cooldownUntil, sendHistory, messageTracker,
                                reconnectAttempts, reconnectTimers, cooldownWaits,
                                calls, initPending, disconnectReason>>]_vars

\* The idle timer took the Connection from READY to IDLE.
C19_Witness ==
  /\ last.op = "idle"
  /\ last.pre = "READY"
  /\ status = "IDLE"

\* What sendMessage does up to its first await on a READY Connection with
\* the given cooldownUntil and history at time t: the status, cooldownUntil
\* and history it leaves, its outcome and the status events it emits.
SendOnReady(cu, h, t, jitter) ==
  LET c == EnforceCooldown("READY", cu, t)
      r == EnforceRateLimit(c.status, c.cooldownUntil, h, t, jitter)
  IN IF c.threw
       THEN [status |-> c.status, cooldownUntil |-> c.cooldownUntil,
             sendHistory |-> h, result |-> "cooldown_active",
             events |-> StatusEvents("READY", <<c.status>>)]
     ELSE IF r.threw # "none"
       THEN [status |-> r.status, cooldownUntil |-> r.cooldownUntil,
             sendHistory |-> r.sendHistory, result |-> r.threw,
             events |-> StatusEvents("READY", <<r.status>>)]
     ELSE [status |-> Transition("READY", "SENDING"),
           cooldownUntil |-> r.cooldownUntil, sendHistory |-> r.sendHistory,
           result |-> "sending", events |-> StatusEvents("READY", <<"SENDING">>)]

\* C20: a sendMessage call on an IDLE Connection emits a READY status event
\* first, and after it does what the same call does on a READY Connection
\* with the same cooldownUntil and history at the same time: the same status
\* events follow, the same status, cooldownUntil and history are left, the
\* outcome is the same, and validateNumber is awaited in the same case.
C20_IdleSendAsReady ==
  [][(last'.op = "sendMessage" /\ last'.pre = "IDLE")
       => /\ last'.events # <<>>
          /\ Head(last'.events) = "READY"
          /\ \E jitter \in RandomDelay(CooldownJitterMin, CooldownJitterMax) :
               LET o == SendOnReady(cooldownUntil, sendHistory, now, jitter)
               IN /\ Tail(last'.events) = o.events
                  /\ status' = o.status
                  /\ cooldownUntil' = o.cooldownUntil
                  /\ sendHistory' = o.sendHistory
                  /\ last'.result = o.result
                  /\ (ValidatingCount(calls') = ValidatingCount(calls) + 1)
                       = (o.result = "sending")
                  /\ (calls' = calls) = (o.result # "sending")]_vars

\* A call on an IDLE Connection was stopped by the hourly limit after the
\* READY event.
C20_Witness ==
  /\ last.op = "sendMessage"
  /\ last.pre = "IDLE"
  /\ last.result = "rate_limit_hour"
  /\ last.events = <<"READY", "COOLDOWN">>
  /\ status = "COOLDOWN"

\* The clients the pool created for account id.
CreatedFor(id) == {c \in DOMAIN clients : clients[c].id = id}

\* C21: whatever the interleaving of startSession and loadSessions calls, the
\* pool has created at most one client for each account id and holds it
\* under that id, it called initialize once on each client it created, and a
\* startSession call for an id that was in the pool returned the pooled
\* client and created nothing.
C21_OneClientPerId ==
  /\ \A id \in Ids : Cardinality(CreatedFor(id)) <= 1
  /\ \A c \in DOMAIN clients :
       /\ clients[c].initialized = 1
       /\ clients[c].id \in DOMAIN sessions
       /\ sessions[clients[c].id] = c
  /\ (lastP.op = "startSession" /\ lastP.existed)
       => /\ lastP.created = 0
          /\ lastP.returned = sessions[lastP.id]

\* startSession found the id in the pool while a loadSessions call that had
\* restored it was still suspended.
C21_Witness ==
  /\ lastP.op = "startSession"
  /\ lastP.existed
  /\ lastP.created = 0
  /\ loads # {}
  /\ Len(clients) >= 1

\* C22: a waitForReady call is settled as soon as at least minReady clients
\* of the pool are READY or IDLE, clients pooled after the call included: no
\* call is still waiting in a state where that many clients are ready.
C22_ResolvesAsSoonAsReady ==
  \A w \in waiters : ~HasEnoughReady(clients, sessions, w.minReady)

\* C23: every message.status event of the provider is republished as one
\* message_status event that carries the message id and the status of the
\* event and the id of the connection; for a tracked id it also carries what
\* the tracker holds for it, the correlation metadata of the send included;
\* for an untracked id it carries the fields of the event and the chipId only.
C23_StatusRepublished ==
  last.op = "messageStatus"
    => /\ Len(last.upward) = 1
       /\ LET payload == last.upward[1]
              tracked == Tracked(messageTracker, last.update.messageId)
          IN /\ payload.messageId = last.update.messageId
             /\ payload.status = last.update.status
             /\ payload.chipId = ChipId
             /\ \A k \in DOMAIN tracked \ DOMAIN last.update : 
                  k \in DOMAIN payload /\ payload[k] = tracked[k]
             /\ \A e \in messageTracker :
                  (e.messageId = last.update.messageId /\ e.correlation)
                    => "correlationId" \in DOMAIN payload
             /\ tracked = <<>>
                  => DOMAIN payload = DOMAIN last.update \cup {"chipId"}

\* A status event was republished for a message sent with correlation
\* metadata.
C23_Witness ==
  /\ last.op = "messageStatus"
  /\ Len(last.upward) = 1
  /\ "correlationId" \in DOMAIN last.upward[1]
  /\ last.upward[1].status = "READ"

\* C24: an entry of messageTracker is never removed and its correlation
\* metadata never changes, whatever sends and status events follow.
C24_TrackerKeepsEntries ==
  [][\A e \in messageTracker :
       /\ e \in messageTracker'
       /\ \A f \in messageTracker' : f.messageId = e.messageId => f = e]_vars

\* C25: a _transition call that changes the status emits one status event,
\* which carries the new status; when the change is the forced entry into
\* ERROR of a transition outside the table the event carries ERROR and the
\* reason invalid_transition; and once a status event has been emitted the
\* status of the last one is the current status.
C25_StatusAnnounced ==
  /\ tcalls > 0
       => /\ status # lastT.from => lastT.events = <<status>>
          /\ (lastT.from # lastT.to /\ ~IsAllowed(lastT.from, lastT.to))
               => /\ lastT.events = <<"ERROR">>
                  /\ lastT.reason = "invalid_transition"
  /\ IF lastT.announced = "none" THEN status = "INIT"
     ELSE lastT.announced = status

\* A transition outside the table forced ERROR and was announced as such.
C25_Witness ==
  /\ tcalls > 0
  /\ lastT.from = "READY"
  /\ lastT.to = "CONNECTED"
  /\ status = "ERROR"
  /\ lastT.events = <<"ERROR">>
  /\ lastT.reason = "invalid_transition"
  /\ lastT.announced = "ERROR"

\* Every timestamp of sendHistory lies within the trailing 24 hours of now.
WithinDay == \A i \in DOMAIN sendHistory : sendHistory[i] >= now - DayMs

\* C26, as stated: in every reachable state every timestamp of sendHistory
\* lies within the trailing 24 hours of the current time.
C26_HistoryWithinDay == WithinDay

\* C26, amended: sendHistory is pruned by _enforceRateLimit and nowhere else,
\* so every timestamp lies within the trailing 24 hours right after a
\* sendMessage call that reached the rate-limit check and right after a send
\* was registered; between sends older timestamps stay in the list.
C26_HistoryPrunedAtSend ==
  /\ (last.op = "sendMessage" /\ last.result \in {"sending"} \cup RateLimitErrors)
       => WithinDay
  /\ last.op = "sendResolved" => sendHistory[Len(sendHistory)] = now

\* A sendMessage call made more than 24 hours after the only earlier send
\* dropped its timestamp and went on.
C26_Witness ==
  /\ last.op = "sendMessage"
  /\ last.result = "sending"
  /\ now > DayMs
  /\ sendHistory = <<>>

\* The oldest timestamp of h that is not older than `window` at time t.
InWindow(h, t, window) == {h[i] : i \in {j \in DOMAIN h : h[j] >= t - window}}
Oldest(stamps) == CHOOSE x \in stamps : \A y \in stamps : x <= y

\* cooldownUntil cu is the oldest send of the window plus the window plus a
\* jitter of 3000 to 11999 ms, and so is after time t and not before the
\* instant at which that send leaves the window.
FromOldest(cu, h, t, window) ==
  /\ InWindow(h, t, window) # {}
  /\ cu - (Oldest(InWindow(h, t, window)) + window)
       \in CooldownJitterMin .. CooldownJitterMax - 1
  /\ cu > t
  /\ cu >= Oldest(InWindow(h, t, window)) + window

\* C27: when the rate-limit check rejects by the hourly (daily) limit,
\* cooldownUntil is the oldest send within the trailing hour (24 hours) plus
\* the length of the window plus a jitter in [3 s, 12 s): it is not in the
\* past and not before that send leaves the window.
C27_CooldownFromOldest ==
  rateCheck.called
    => /\ rateCheck.threw = "rate_limit_hour"
            => FromOldest(rateCheck.cooldownUntil, rateCheck.history,
                          rateCheck.now, HourMs)
       /\ rateCheck.threw = "rate_limit_day"
            => FromOldest(rateCheck.cooldownUntil, rateCheck.history,
                          rateCheck.now, DayMs)
       /\ rateCheck.threw # "none" => rateCheck.status = "COOLDOWN"

\* The daily limit rejected a call whose oldest counted send was exactly 24
\* hours old.
C27_Witness ==
  /\ rateCheck.called
  /\ rateCheck.threw = "rate_limit_day"
  /\ rateCheck.history[1] = rateCheck.now - DayMs
  /\ rateCheck.cooldownUntil = rateCheck.now + CooldownJitterMin

\* The bound a setDelayRange argument asks for: the argument if it is a
\* finite number, the bound the engine held otherwise.
Asked(arg, held) == IF arg = Missing THEN held ELSE arg

\* C28: after a setDelayRange call, whatever arguments are finite or missing,
\* minDelay <= maxDelay; a missing or non-finite argument stands for the
\* bound the engine held; the two bounds asked for are both kept, swapped if
\* they were inverted.
C28_DelayRangeOrdered ==
  engineCall.op = "setDelayRange"
    => LET lo == Asked(engineCall.mn, engineCall.preMin)
           hi == Asked(engineCall.mx, engineCall.preMax)
       IN /\ minDelay <= maxDelay
          /\ hi >= lo => (minDelay = lo /\ maxDelay = hi)
          /\ hi < lo => (minDelay = hi /\ maxDelay = lo)

\* Only maxDelay was given, below the minDelay the engine held: the two were
\* swapped.
C28_Witness ==
  /\ engineCall.op = "setDelayRange"
  /\ engineCall.mn = Missing
  /\ engineCall.mx = SmallDelay
  /\ engineCall.preMin = DefaultMinDelay
  /\ minDelay = SmallDelay
  /\ maxDelay = DefaultMinDelay

\* Two getTypingDelay calls in a row, the first on a text no longer than the
\* second.
TwoTypingCalls ==
  /\ engineCall.op = "getTypingDelay"
  /\ Len(engineCall.lengths) = 2
  /\ engineCall.lengths[1] <= engineCall.lengths[2]

\* C29, as stated: for texts a and b with length(a) <= length(b),
\* getTypingDelay(a) <= getTypingDelay(b), whatever per-character delay each
\* call draws.
C29_TypingMonotone ==
  TwoTypingCalls => engineCall.delays[1] <= engineCall.delays[2]

\* C29, amended: getTypingDelay is non-decreasing in the length of the text
\* for one value of the per-character delay; two calls that draw different
\* values are ordered when the longer text is capped.
C29_TypingMonotoneSameDraw ==
  TwoTypingCalls
    => /\ engineCall.charDelays[1] = engineCall.charDelays[2]
            => engineCall.delays[1] <= engineCall.delays[2]
       /\ engineCall.delays[2] = TypingCap
            => engineCall.delays[1] <= engineCall.delays[2]

\* Two calls with the same per-character delay, the longer text below the cap.
C29_Witness ==
  /\ TwoTypingCalls
  /\ engineCall.charDelays[1] = engineCall.charDelays[2]
  /\ engineCall.lengths[1] < engineCall.lengths[2]
  /\ engineCall.delays[1] < engineCall.delays[2]
  /\ engineCall.delays[2] < TypingCap

\* C30: getTypingDelay returns a value from 0 to 15000: the length of the
\* text times the per-character delay when that is below 15000, 15000
\* otherwise; a text of 150 characters or more gives 15000.
C30_TypingCapped ==
  engineCall.op = "getTypingDelay"
    => LET n == Len(engineCall.delays)
           product == engineCall.lengths[n] * engineCall.charDelays[n]
       IN /\ engineCall.delays[n] >= 0
          /\ engineCall.delays[n] <= 15000
          /\ product < 15000 => engineCall.delays[n] = product
          /\ product >= 15000 => engineCall.delays[n] = 15000
          /\ engineCall.lengths[n] >= 150 => engineCall.delays[n] = 15000

\* A text of exactly 150 characters at the lowest per-character delay.
C30_Witness ==
  /\ engineCall.op = "getTypingDelay"
  /\ engineCall.lengths[Len(engineCall.lengths)] = 150
  /\ engineCall.charDelays[Len(engineCall.charDelays)] = 100
  /\ engineCall.delays[Len(engineCall.delays)] = 15000


\* C31: a waitUntilReady call made in READY or IDLE is resolved at once and
\* registers nothing; a call made in any other status stays pending, with its
\* listener and its timer both registered, until the first status event that
\* announces READY or IDLE resolves it or its timeout rejects it; resolve or
\* reject is called once per call, and a settled call has neither a listener
\* nor a timer left.
C31_WaitUntilReadySettles ==
  /\ waitListeners = waitTimers
  /\ status \in {"READY", "IDLE"} => waitListeners = {}
  /\ \A n \in DOMAIN waitOutcome :
        LET call == waitOutcome[n] IN
          /\ Len(call.settled) <= 1
          /\ (call.settled = <<>>) <=> (n \in waitListeners)
          /\ (call.settled = <<>>) <=> (n \in waitTimers)
          /\ call.at \in {"READY", "IDLE"} =>
                call.settled = <<Settle("resolved", "immediate")>>
          /\ call.at \notin {"READY", "IDLE"} /\ call.settled # <<>> =>
                call.settled[1] \in {Settle("resolved", "event"),
                                     Settle("rejected", "timeout")}

C31_Witness ==
  /\ \E n \in DOMAIN waitOutcome :
        waitOutcome[n].settled = <<Settle("resolved", "immediate")>>
  /\ \E n \in DOMAIN waitOutcome :
        waitOutcome[n].settled = <<Settle("resolved", "event")>>
  /\ \E n \in DOMAIN waitOutcome :
        waitOutcome[n].settled = <<Settle("rejected", "timeout")>>
  /\ waitListeners = {}
  /\ waitTimers = {}

\* C32: when the wait of an enterCooldown call ends and the status is not
\* COOLDOWN, the rest of that call changes neither the status nor the idle
\* timer.
C32_CooldownEndKeepsOthers ==
  [][BagCardinality(cooldownWaits') < BagCardinality(cooldownWaits)
       /\ status # "COOLDOWN"
     => status' = status /\ idleTimer' = idleTimer]_vars

C32_Witness ==
  /\ last.op = "cooldownComplete"
  /\ last.pre = "DISCONNECTED"
  /\ status = "DISCONNECTED"

\* C33: while cooldownUntil lies in the future no step moves it to an earlier
\* instant or clears it: enterCooldown keeps the later of the two instants, the
\* rate limiter writes it only when no unexpired cooldown is set, and a send
\* attempt clears it only at or after its expiry.
C33_CooldownNeverShortened ==
  [][cooldownUntil # NoTime /\ now < cooldownUntil
     => cooldownUntil' # NoTime /\ cooldownUntil' >= cooldownUntil]_vars

C33_Witness ==
  /\ last.op = "enterCooldown"
  /\ last.result = "waiting"
  /\ last.preCooldownUntil = now + LongCooldown
  /\ cooldownUntil = last.preCooldownUntil
  /\ \E w \in BagToSet(cooldownWaits) : w.due = now + ShortCooldown

\* C34: every handler that brings the Connection into READY arms the idle
\* timer anew in the same step, replacing the one pending timer, and the only
\* step from READY to IDLE is the callback of the pending timer at or after its
\* deadline; so the timer that demotes was armed at or after the most recent
\* entry into READY, never during an earlier READY period.
C34_DemotedByCurrentTimer ==
  [][/\ status' = "READY" /\ status # "READY"
          => idleTimer' = now + IdleTimeoutMs
     /\ status = "READY" /\ status' = "IDLE"
          => /\ idleTimer # NoTime
             /\ idleTimer <= now
             /\ idleTimer' = NoTime
             /\ last'.op = "idle"]_vars

\* The Connection was demoted to IDLE by a timer armed in its second READY
\* period: a send went through SENDING and back to READY before.
C34_Witness ==
  /\ status = "IDLE"
  /\ last.op = "idle"
  /\ last.pre = "READY"
  /\ Len(sendHistory) > 0
  /\ now >= sendHistory[Len(sendHistory)] + IdleTimeoutMs

\* C35: at most one sendMessage call of the Connection is past its transition
\* to SENDING and not yet complete, that is awaiting the provider's validation
\* or send operation.
C35_OneSendInFlight == ValidatingCount(calls) + SendingCount(calls) <= 1

\* C36: the handler of a provider 'open' event leaves the Connection in READY
\* exactly when the status was AUTHENTICATING or CONNECTED as the event
\* arrived, and in ERROR from every other status; this holds of the handler's
\* computation from each of the nine statuses and of every 'open' step taken.
C36_OpenReadyOrError ==
  [][/\ \A s \in STATES :
          /\ OnOpen(s) = "READY" <=> s \in {"AUTHENTICATING", "CONNECTED"}
          /\ s \notin {"AUTHENTICATING", "CONNECTED"} => OnOpen(s) = "ERROR"
     /\ ops' # ops /\ last'.op = "open"
          => /\ status' = "READY" <=> status \in {"AUTHENTICATING", "CONNECTED"}
             /\ status \notin {"AUTHENTICATING", "CONNECTED"}
                  => status' = "ERROR"]_vars

\* An 'open' event has arrived in CONNECTED, and one in SENDING before it.
C36_Witness ==
  /\ last.op = "open"
  /\ last.pre = "CONNECTED"
  /\ status = "READY"
  /\ ops >= 3

\* C37: a reconnect timer that fires runs its initialize() only on a
\* Connection in DISCONNECTED or ERROR, and so never turns a Connection that
\* is CONNECTED, READY, IDLE, SENDING or COOLDOWN into ERROR.
C37_ReconnectOnlyWhenDown ==
  (last.op = "initialize" /\ last.result = "reconnect_timer")
    => /\ last.pre \in {"DISCONNECTED", "ERROR"}
       /\ ~(last.pre \in {"CONNECTED", "READY", "IDLE", "SENDING", "COOLDOWN"}
            /\ status = "ERROR")

\* C38: once stopSession has completed the Connection is out of the pool and
\* DISCONNECTED, and no timer or pending provider call of the Connection (a
\* step no caller makes) changes its status or calls provider.initialize
\* again, whatever close events came before or during the shutdown.
C38_StoppedStaysStopped ==
  [][/\ stopping' = "stopped" /\ stopping # "stopped"
          => status' = "DISCONNECTED"
     /\ stopping = "stopped" /\ ops' = ops
          => status' = status /\ initPending' <= initPending]_vars

\* C39: a dispatch call that supplies no delay override computes its post-send
\* delay from the bounds the ComplianceEngine of the Dispatcher had at
\* construction, whatever override an earlier dispatch call supplied.
C39_OverrideOneCallOnly ==
  (/\ dispatch.delayConfig = <<Missing, Missing>>
   /\ \E i \in DOMAIN dispatch.steps : dispatch.steps[i] = "delays")
    => /\ dispatch.range = <<DefaultMinDelay, DefaultMaxDelay>>
       /\ dispatch.delays[2] =
            GetVariableDelay(DefaultMinDelay, DefaultMaxDelay, dispatch.draws)

\* C40: for every message whose dispatch has returned, the entry of the
\* campaign state for its clientMessageId holds the status of the most recent
\* message_status event received for that message.
C40_EntryHoldsLatestStatus ==
  \A i \in DOMAIN campaign :
    campaign[i].pc = "returned"
      => campaign[i].entry = IF campaign[i].received = "none"
                               THEN "SERVER_ACK"
                               ELSE campaign[i].received

============================================================================
